---- MODULE Spec2Model ----
(***************************************************************************)
(* A model of kevinfrei/audio-database: the aggregate audio database       *)
(* (AudioDatabase.ts), the audio file index and its process-global         *)
(* registry (AudioFileIndex.ts), as state machines whose actions are the   *)
(* public operations and their internal handlers.                          *)
(*                                                                         *)
(* Strings are sequences of word tokens.  xxhashjs' h32 is an external     *)
(* library: it is modelled as a deterministic many-to-one function into a  *)
(* small range, so that two different inputs can hash to the same value.   *)
(* ToB64 / ToU8 are injective encodings of a hash number; a key is the     *)
(* pair of its one-letter prefix and the number(s) it encodes.             *)
(***************************************************************************)
EXTENDS Integers, Sequences, FiniteSets, TLC

\* ------------------------------------------------------------------ bounds
\* Size of the modelled hash range (the code's is 2^32).
HashSpace == 64
\* Number of addOrUpdateSong calls in one behaviour.
MaxAdds == 3
\* Number of AudioFileIndex objects created in one behaviour.
MaxAfis == 2

\* ------------------------------------------------------- sequence helpers
Range(s) == { s[i] : i \in 1..Len(s) }

Contains(s, x) == \E i \in 1..Len(s) : s[i] = x

\* Array.prototype.indexOf, 1-based; 0 when absent (the code's -1)
IndexOf(s, x) ==
  IF Contains(s, x) THEN CHOOSE i \in 1..Len(s) : s[i] = x /\ \A j \in 1..(i-1) : s[j] # x
  ELSE 0

\* Array.prototype.splice(i, 1), 1-based
RemoveAt(s, i) == [j \in 1..(Len(s)-1) |-> IF j < i THEN s[j] ELSE s[j+1]]

Reverse(s) == [j \in 1..Len(s) |-> s[Len(s) + 1 - j]]

\* The elements of s that are in set S, in order
RECURSIVE Keep(_, _)
Keep(s, S) ==
  IF s = <<>> THEN <<>>
  ELSE IF Head(s) \in S THEN <<Head(s)>> \o Keep(Tail(s), S) ELSE Keep(Tail(s), S)

\* Map.delete / removing a key from a function
Without(f, k) == [x \in (DOMAIN f) \ {k} |-> f[x]]

\* Map.set
With(f, k, v) == [x \in (DOMAIN f) \cup {k} |-> IF x = k THEN v ELSE f[x]]

\* ---------------------------------------------------------------- strings
Articles == {"the", "a", "an"}

\* Case folding of one word
Lower(w) ==
  CASE w = "The" -> "the"
    [] w = "X" -> "x"
    [] w = "Y" -> "y"
    [] w = "Z" -> "z"
    [] w = "T" -> "t"
    [] w = "U" -> "u"
    [] OTHER -> w

\* Helpers.StripInitialArticles: drops a leading article followed by more text
StripInitialArticles(n) ==
  IF Len(n) > 1 /\ Lower(n[1]) \in Articles THEN Tail(n) ELSE n

\* Helpers.NormalizeText: case folding (whitespace is the token boundary)
NormalizeText(n) == [i \in 1..Len(n) |-> Lower(n[i])]

normalizeName(n) == NormalizeText(StripInitialArticles(n))

\* ------------------------------------------------------------------- hash
\* The integer a word contributes to the hash of a string.  The codes make
\* three pairs of different strings hash alike: the artist names "y" and "z",
\* the relative paths d/f1 and d/f2, and (with the year) the album summaries of
\* the titles "t" and "u".  The file name "F1" is "f1" in another letter case
\* and hashes like it; the file name "g,h" holds a comma.
WordCode(w) ==
  CASE w = "x" -> 1
    [] w = "y" -> 5
    [] w = "z" -> 69
    [] w = "t" -> 16
    [] w = "u" -> 17
    [] w = "va" -> 40
    [] w = "ost" -> 50
    [] w = "a" -> 2
    [] w = "d" -> 2
    [] w = "e" -> 4
    [] w = "f1" -> 1
    [] w = "f2" -> 65
    [] w = "f3" -> 5
    [] w = "F1" -> 129
    [] w = "g,h" -> 9
    [] OTHER -> 7

RECURSIVE StrCode(_)
StrCode(s) == IF s = <<>> THEN 0 ELSE WordCode(Head(s)) + StrCode(Tail(s))

RECURSIVE NumCode(_)
NumCode(s) == IF s = <<>> THEN 0 ELSE Head(s) + 1 + 7 * NumCode(Tail(s))

\* h32(seed).update(str).digest().toNumber(), on the integer code of str
H32(code, seed) == (code + seed) % HashSpace

\* ------------------------------------------------------------------- keys
\* `S${indexHashString}:${ToU8(hash)}`, `L${ToB64(hashNum)}`, `R${ToB64(hashNum)}`
SongKeyOf(prefix, h) == <<"S", prefix, h>>
AlbumKeyOf(h) == <<"L", h>>
ArtistKeyOf(h) == <<"R", h>>
\* No song: the value of an album's `shared` field when no song shares its array
NoSong == <<"S", -1, -1>>

\* A string registered in the module-level artistHash map: a normalized artist
\* name, or (newAlbumKey writes there too) an album summary
NameEntry(nn) == [t |-> nn, a |-> <<>>, v |-> "name", y |-> 0]
\* `${normalizeName(albumName)}*${normalizeName(artistName)}*${year}`; artistName is
\* the primary-artist keys joined by '/', or the VA type
AlbumSummary(title, artists, vatype, year) ==
  [t |-> normalizeName(title),
   a |-> IF vatype = "" THEN [i \in 1..Len(artists) |-> artists[i][2]] ELSE <<>>,
   v |-> vatype, y |-> year]
SummaryCode(sm) ==
  StrCode(sm.t) + (IF sm.v = "" THEN NumCode(sm.a) ELSE StrCode(<<sm.v>>)) + sm.y

\* ------------------------------------------------------------------ paths
\* A path is its sequence of components; a location (root) is a directory path
IsPrefix(loc, p) == Len(loc) <= Len(p) /\ SubSeq(p, 1, Len(loc)) = loc
\* path.dirname
DirName(p) == SubSeq(p, 1, Len(p) - 1)
\* getRelativePath: absPath.substr(data.location.length)
RelPath(loc, p) == SubSeq(p, Len(loc) + 1, Len(p))
\* location.length, in characters: "/a/" is 3, "/a/e/" is 5
CharLen(loc) == 1 + 2 * Len(loc)

\* The seed of the fragment hash of a location, 0xdeadbeef, by its low 16 bits
\* 0xbeef (the model's hash only uses the seed modulo HashSpace)
DeadBeef == 48879
\* h32(thePath, 0xdeadbeef).toNumber()
FragmentHash(loc) == H32(StrCode(loc), DeadBeef)

\* --------------------------------------------- the process-global registry
\* The database and registry state threaded through the handlers is a record d:
\*   songs, albums, artists, titleIdx, nameIdx : the five maps of the database
\*   ahash  : the module-level artistHash map (hash number -> string)
\*   afis   : the AudioFileIndex objects ever made, by object identity 1, 2, ...
\*   paths  : lengthSortedPaths, as the sequence of AFI identities
\*   lookup : indexKeyLookup, encoded hash -> AFI identity

\* GetIndexForPath: the first registered AFI whose location is a prefix; 0 if none
GetIndexForPath(d, p) ==
  LET hits == { i \in 1..Len(d.paths) : IsPrefix(d.afis[d.paths[i]].location, p) }
  IN IF hits = {} THEN 0
     ELSE d.paths[CHOOSE i \in hits : \A j \in hits : i <= j]

\* The while loop of addIndex: rehash until the slot is free or is ours
RECURSIVE IndexChain(_, _, _, _)
IndexChain(lookup, h, loc, id) ==
  IF h \in DOMAIN lookup /\ lookup[h] # id
  THEN IndexChain(lookup, H32(StrCode(loc), h), loc, id)
  ELSE h

\* The position addIndex inserts at: the first i (0-based) with
\* lengthSortedPaths[i].location.length >= i
InsertPos(d) ==
  LET ok == { i \in 0..(Len(d.paths) - 1) : CharLen(d.afis[d.paths[i+1]].location) >= i }
  IN IF ok = {} THEN Len(d.paths) ELSE CHOOSE i \in ok : \A j \in ok : i <= j

InsertAt(s, pos, x) == SubSeq(s, 1, pos) \o <<x>> \o SubSeq(s, pos + 1, Len(s))

\* addIndex(hashValue, location, index): returns the registry and the encoded hash
addIndex(d, hashValue, loc, id) ==
  LET u8 == IndexChain(d.lookup, hashValue, loc, id)
  IN IF u8 \in DOMAIN d.lookup
     THEN [d |-> d, u8 |-> u8]
     ELSE [d |-> [d EXCEPT !.lookup = With(@, u8, id),
                           !.paths = InsertAt(@, InsertPos(d), id)],
           u8 |-> u8]

\* delIndex(index)
delIndex(d, id) ==
  LET at == IndexOf(d.paths, id)
  IN [d EXCEPT !.paths = IF at > 0 THEN RemoveAt(@, at) ELSE @,
               !.lookup = Without(@, d.afis[id].hashStr)]

\* toLocaleUpperCase() of a path component
UpperWord(w) ==
  CASE w = "a" -> "A"
    [] w = "d" -> "D"
    [] w = "e" -> "E"
    [] w = "f1" -> "F1"
    [] w = "f2" -> "F2"
    [] w = "f3" -> "F3"
    [] w = "g,h" -> "G,H"
    [] OTHER -> w

\* pathCompare(a, b): 0 when the two paths are equal once in upper case
pathCompare(a, b) ==
  IF [i \in DOMAIN a |-> UpperWord(a[i])] = [i \in DOMAIN b |-> UpperWord(b[i])]
  THEN 0 ELSE 1

\* The while loop of makeSongKey
RECURSIVE SongChain(_, _, _, _)
SongChain(keys, h, rel, abs) ==
  IF h \in DOMAIN keys /\ pathCompare(keys[h], rel) # 0
  THEN SongChain(keys, H32(StrCode(abs), h), rel, abs)
  ELSE h

\* afi.makeSongKey(songPath), songPath under the AFI's location: the key, and
\* the AFI objects with the key recorded in existingSongKeys
makeSongKey(d, id, p) ==
  LET afi == d.afis[id]
      rel == RelPath(afi.location, p)
      h == SongChain(afi.existingSongKeys, H32(StrCode(rel), afi.fragmentHash), rel, p)
  IN [d |-> [d EXCEPT !.afis[id].existingSongKeys = With(@, h, rel)],
      key |-> SongKeyOf(afi.hashStr, h)]

\* ------------------------------------------------------------ the database
\* A Song is [key, path, artistIds, secondaryIds, albumId, title, track];
\* an Artist is [key, name, songs, albums];
\* an Album is [key, title, year, vatype, primaryArtists, songs, hasDiskNames,
\* diskNames, shared].  getOrNewAlbum stores the incoming song's artistIds array
\* itself in a new album (primaryArtists: artists), so the two fields are one
\* array object: `shared` is the key of the song in dbSongs whose artistIds is
\* that same array, NoSong when there is none, and every in-place change of one
\* is made to the other.

\* The while loop of newArtistKey
RECURSIVE ArtistChain(_, _, _)
ArtistChain(ahash, h, nn) ==
  IF h \in DOMAIN ahash /\ ahash[h] # NameEntry(nn)
  THEN ArtistChain(ahash, H32(StrCode(nn), h), nn)
  ELSE h

\* newArtistKey(artistName): the hash number of the key
newArtistKey(ahash, name) ==
  ArtistChain(ahash, H32(StrCode(normalizeName(name)), 0), normalizeName(name))

\* newAlbumKey(albumName, artistName, year): the hash number of the key.  The
\* loop tests albumHash, which is never written (the function writes
\* artistHash), so it never runs.
newAlbumKey(sm) == H32(SummaryCode(sm), 0)

\* getOrNewArtist with the name index keyed by the name as given, not by its
\* normalized form
getOrNewArtistRawName(d, name) ==
  IF name \in DOMAIN d.nameIdx /\ d.nameIdx[name] \in DOMAIN d.artists
  THEN [d |-> d, key |-> d.nameIdx[name]]
  ELSE LET h == newArtistKey(d.ahash, name)
           key == ArtistKeyOf(h)
       IN [d |-> [d EXCEPT !.ahash = With(@, h, NameEntry(normalizeName(name))),
                           !.nameIdx = With(@, name, key),
                           !.artists = With(@, key,
                              [key |-> key, name |-> name, songs |-> <<>>, albums |-> <<>>])],
           key |-> key]

\* getOrNewArtist(name): the database and the artist's key
getOrNewArtist(d, name) ==
  LET nn == normalizeName(name) IN
  IF nn \in DOMAIN d.nameIdx /\ d.nameIdx[nn] \in DOMAIN d.artists
  THEN [d |-> d, key |-> d.nameIdx[nn]]
  ELSE LET h == newArtistKey(d.ahash, name)
           key == ArtistKeyOf(h)
       IN [d |-> [d EXCEPT !.ahash = With(@, h, NameEntry(nn)),
                           !.nameIdx = With(@, nn, key),
                           !.artists = With(@, key,
                              [key |-> key, name |-> name, songs |-> <<>>, albums |-> <<>>])],
           key |-> key]

\* names.map(getOrNewArtist): the database and the keys, in order
RECURSIVE GetArtists(_, _)
GetArtists(d, names) ==
  IF names = <<>> THEN [d |-> d, keys |-> <<>>]
  ELSE LET one == getOrNewArtist(d, Head(names))
           rest == GetArtists(one.d, Tail(names))
       IN [d |-> rest.d, keys |-> <<one.key>> \o rest.keys]

\* EnsureDiskNums(album, diskNum, diskName); NoDisk is an undefined diskNum and
\* "" an undefined (or empty) diskName
NoDisk == -1
\* EnsureDiskNums that writes the name of the song's disk over the one it finds
EnsureDiskNumsOverwrites(album, diskNum, diskName) ==
  IF diskNum = NoDisk THEN album
  ELSE LET old == IF album.hasDiskNames THEN album.diskNames ELSE <<>>
           n == IF Len(old) > diskNum THEN Len(old) ELSE diskNum
       IN [album EXCEPT
             !.hasDiskNames = TRUE,
             !.diskNames = [i \in 1..n |->
                IF i = diskNum THEN diskName
                ELSE IF i > Len(old) THEN "" ELSE old[i]]]

EnsureDiskNums(album, diskNum, diskName) ==
  IF diskNum = NoDisk THEN album
  ELSE LET old == IF album.hasDiskNames THEN album.diskNames ELSE <<>>
           n == IF Len(old) > diskNum THEN Len(old) ELSE diskNum
       IN [album EXCEPT
             !.hasDiskNames = TRUE,
             !.diskNames = [i \in 1..n |->
                IF i <= diskNum /\ (i > Len(old) \/ (old[i] = "" /\ diskName # ""))
                THEN (IF i = diskNum THEN diskName ELSE "")
                ELSE old[i]]]

\* demoteArtists(primaryArtists, secondArtists): the two arrays afterwards
demoteArtists(primary, second, common) ==
  [p |-> Keep(primary, common),
   s |-> second \o Reverse(Keep(primary, Range(primary) \ common))]

\* The loop body without the test of the first song's directory
CandidateAnyDir(d, albumKey, title, year, artists, vatype, dirName) ==
  IF albumKey \notin DOMAIN d.albums THEN "continue"
  ELSE LET check == d.albums[albumKey] IN
    IF normalizeName(check.title) # normalizeName(title) THEN "continue"
    ELSE IF check.year # year THEN "continue"
    ELSE IF check.vatype = vatype /\ vatype # "" THEN "va"
    ELSE IF Range(check.primaryArtists) # Range(artists) THEN
      IF check.songs = <<>> \/ check.songs[1] \notin DOMAIN d.songs THEN "continue"
      ELSE IF Range(check.primaryArtists) \cap Range(artists) # {} THEN "demote"
      ELSE "collapse"
    ELSE "match"

\* What the loop body of getOrNewAlbum does with one candidate album key
Candidate(d, albumKey, title, year, artists, vatype, dirName) ==
  IF albumKey \notin DOMAIN d.albums THEN "continue"
  ELSE LET check == d.albums[albumKey] IN
    IF normalizeName(check.title) # normalizeName(title) THEN "continue"
    ELSE IF check.year # year THEN "continue"
    ELSE IF check.vatype = vatype /\ vatype # "" THEN "va"
    ELSE IF Range(check.primaryArtists) # Range(artists) THEN
      IF check.songs = <<>> \/ check.songs[1] \notin DOMAIN d.songs THEN "continue"
      ELSE IF DirName(d.songs[check.songs[1]].path) # dirName THEN "continue"
      ELSE IF Range(check.primaryArtists) \cap Range(artists) # {} THEN "demote"
      ELSE "collapse"
    ELSE "match"

\* The index (1-based) of the first candidate the loop returns on; 0 if none
FirstCandidate(d, cands, title, year, artists, vatype, dirName) ==
  LET hits == { i \in 1..Len(cands) :
                  Candidate(d, cands[i], title, year, artists, vatype, dirName) # "continue" }
  IN IF hits = {} THEN 0 ELSE CHOOSE i \in hits : \A j \in hits : i <= j

\* The demotion of the songs already on the album: run when some primary artist
\* of the album is not common
DemoteAlbumSongs(d, albumKey, common) ==
  LET check == d.albums[albumKey]
      touched == IF Range(check.primaryArtists) \subseteq common THEN {}
                 ELSE Range(check.songs) \cap DOMAIN d.songs
      newSongs == [k \in DOMAIN d.songs |->
                     IF k \in touched
                     THEN LET r == demoteArtists(d.songs[k].artistIds,
                                                 d.songs[k].secondaryIds, common)
                          IN [d.songs[k] EXCEPT !.artistIds = r.p, !.secondaryIds = r.s]
                     ELSE d.songs[k]]
      newAlbums == [k \in DOMAIN d.albums |->
                     IF d.albums[k].shared \in touched
                     THEN [d.albums[k] EXCEPT
                             !.primaryArtists = newSongs[d.albums[k].shared].artistIds]
                     ELSE d.albums[k]]
  IN [d EXCEPT !.songs = newSongs, !.albums = newAlbums]

\* for (const art of artists) ... thisArtist.albums.push(check.key)
RECURSIVE EnsureAlbumListed(_, _, _)
EnsureAlbumListed(artistMap, keys, albumKey) ==
  IF keys = <<>> THEN artistMap
  ELSE LET k == Head(keys)
           m == IF k \in DOMAIN artistMap /\ ~Contains(artistMap[k].albums, albumKey)
                THEN [artistMap EXCEPT ![k].albums = Append(@, albumKey)]
                ELSE artistMap
       IN EnsureAlbumListed(m, Tail(keys), albumKey)

\* MultiMap.set(key, value): the value joins the key's set (kept in insertion order)
MultiMapSet(mm, k, v) ==
  IF k \in DOMAIN mm
  THEN (IF Contains(mm[k], v) THEN mm ELSE [mm EXCEPT ![k] = Append(@, v)])
  ELSE With(mm, k, <<v>>)

\* MultiMap.remove(key, value): the value leaves the key's set; an empty set goes
MultiMapRemove(mm, k, v) ==
  IF k \notin DOMAIN mm \/ ~Contains(mm[k], v) THEN mm
  ELSE IF Len(mm[k]) = 1 THEN Without(mm, k)
  ELSE [mm EXCEPT ![k] = RemoveAt(@, IndexOf(@, v))]

\* data.albumTitleIndex.get(normalizeName(title)) || new Set()
SharedNames(d, title) ==
  IF normalizeName(title) \in DOMAIN d.titleIdx THEN d.titleIdx[normalizeName(title)]
  ELSE <<>>

\* A new album that takes the song's artists whatever its vatype
NewAlbumKeepsArtists(d, sm, title, year, artists, secondaryArtists, vatype, diskNum, diskName) ==
  LET h == newAlbumKey(sm)
      key == AlbumKeyOf(h)
      album == [key |-> key, title |-> title, year |-> year, vatype |-> vatype,
                primaryArtists |-> artists,
                songs |-> <<>>, hasDiskNames |-> FALSE, diskNames |-> <<>>,
                shared |-> NoSong]
  IN [d |-> [d EXCEPT !.ahash = With(@, h, sm),
                      !.titleIdx = MultiMapSet(@, normalizeName(title), key),
                      !.albums = With(@, key, EnsureDiskNums(album, diskNum, diskName))],
      key |-> key, artists |-> artists, secondary |-> secondaryArtists,
      created |-> TRUE]

\* The end of getOrNewAlbum: no candidate was returned, a new album is made.
\* sm is the summary string handed to newAlbumKey.
NewAlbum(d, sm, title, year, artists, secondaryArtists, vatype, diskNum, diskName) ==
  LET h == newAlbumKey(sm)
      key == AlbumKeyOf(h)
      album == [key |-> key, title |-> title, year |-> year, vatype |-> vatype,
                primaryArtists |-> IF vatype = "" THEN artists ELSE <<>>,
                songs |-> <<>>, hasDiskNames |-> FALSE, diskNames |-> <<>>,
                shared |-> NoSong]
  IN [d |-> [d EXCEPT !.ahash = With(@, h, sm),
                      !.titleIdx = MultiMapSet(@, normalizeName(title), key),
                      !.albums = With(@, key, EnsureDiskNums(album, diskNum, diskName))],
      key |-> key, artists |-> artists, secondary |-> secondaryArtists,
      created |-> TRUE]

\* The loop body of getOrNewAlbum on the candidate it returns: kind is what
\* Candidate found for the album with this key
ReturnAlbum(d, key, kind, artists, secondaryArtists, diskNum, diskName) ==
  LET common == Range(d.albums[key].primaryArtists) \cap Range(artists)
      dem == demoteArtists(artists, secondaryArtists, common)
      d1 == CASE kind = "demote" -> DemoteAlbumSongs(d, key, common)
              [] kind = "collapse" ->
                   [d EXCEPT !.albums[key].vatype = "va",
                             !.albums[key].primaryArtists = <<>>,
                             !.albums[key].shared = NoSong]
              [] kind = "match" ->
                   [d EXCEPT !.artists = EnsureAlbumListed(@, artists, key)]
              [] OTHER -> d
  IN [d |-> [d1 EXCEPT !.albums[key] = EnsureDiskNums(@, diskNum, diskName)],
      key |-> key,
      artists |-> IF kind = "demote" THEN dem.p ELSE artists,
      secondary |-> IF kind = "demote" THEN dem.s ELSE secondaryArtists,
      created |-> FALSE]

\* getOrNewAlbum once the loop over sharedNames has stopped at position `at`
AlbumAt(d, sharedNames, at, title, year, artists, secondaryArtists, vatype, dirName, diskNum, diskName) ==
  IF at = 0
  THEN NewAlbum(d, AlbumSummary(title, artists, vatype, year), title, year, artists,
                secondaryArtists, vatype, diskNum, diskName)
  ELSE ReturnAlbum(d, sharedNames[at],
                   Candidate(d, sharedNames[at], title, year, artists, vatype, dirName),
                   artists, secondaryArtists, diskNum, diskName)

\* getOrNewAlbum(title, year, artists, secondaryArtists, vatype, dirName, diskNum,
\* diskName): the database, the album's key, the (possibly demoted) artist arrays
\* of the incoming song, and whether the album was created
getOrNewAlbum(d, title, year, artists, secondaryArtists, vatype, dirName, diskNum, diskName) ==
  AlbumAt(d, SharedNames(d, title),
          FirstCandidate(d, SharedNames(d, title), title, year, artists, vatype, dirName),
          title, year, artists, secondaryArtists, vatype, dirName, diskNum, diskName)

\* getSongKey(songPath): 0 stands for the thrown "Can't find an index" error
getSongKeyIndex(d, p) == GetIndexForPath(d, p)

\* allArtists.forEach: artist.songs.push(key); artist.albums gets the album
RECURSIVE LinkArtists(_, _, _, _)
LinkArtists(artistMap, keys, songKey, albumKey) ==
  IF keys = <<>> THEN artistMap
  ELSE LET k == Head(keys)
           a == artistMap[k]
           a2 == [a EXCEPT !.songs = Append(@, songKey),
                           !.albums = IF IndexOf(@, albumKey) = 0
                                      THEN Append(@, albumKey) ELSE @]
       IN LinkArtists([artistMap EXCEPT ![k] = a2], Tail(keys), songKey, albumKey)

\* track: md.track + (md.disk || 0) * 100
SongTrack(track, diskNum) == track + (IF diskNum = NoDisk THEN 0 ELSE diskNum) * 100

\* The end of addOrUpdateSong: the song, with key mk.key, joins the album al and
\* its artists, and is set in dbSongs
LinkSong(mk, al, allArtists, md) ==
  LET theSong == [key |-> mk.key, path |-> md.originalPath,
                  artistIds |-> al.artists, secondaryIds |-> al.secondary,
                  albumId |-> al.key,
                  track |-> SongTrack(md.track, md.disk),
                  title |-> md.title]
      albums1 == [k \in DOMAIN mk.d.albums |->
                   IF k = al.key
                   THEN [mk.d.albums[k] EXCEPT
                           !.songs = Append(@, mk.key),
                           !.shared = IF al.created /\ md.vaType = "" THEN mk.key
                                      ELSE IF @ = mk.key THEN NoSong ELSE @]
                   ELSE IF mk.d.albums[k].shared = mk.key
                   THEN [mk.d.albums[k] EXCEPT !.shared = NoSong]
                   ELSE mk.d.albums[k]]
  IN [d |-> [mk.d EXCEPT !.albums = albums1,
                         !.artists = LinkArtists(@, allArtists, mk.key, al.key),
                         !.songs = With(@, mk.key, theSong)],
      threw |-> FALSE, key |-> mk.key]

\* addOrUpdateSong from the call of getSongKey on: al is what getOrNewAlbum gave
SongOnAlbum(al, allArtists, md) ==
  IF getSongKeyIndex(al.d, md.originalPath) = 0
  THEN [d |-> al.d, threw |-> TRUE, key |-> NoSong]
  ELSE LinkSong(makeSongKey(al.d, getSongKeyIndex(al.d, md.originalPath), md.originalPath),
                al, allArtists, md)

\* addOrUpdateSong from the call of getOrNewAlbum on: pa and sa are the primary
\* and the secondary artists found or made
SongOfArtists(pa, sa, md) ==
  SongOnAlbum(getOrNewAlbum(sa.d, md.album, md.year, pa.keys, sa.keys, md.vaType,
                            DirName(md.originalPath), md.disk, md.diskName),
              pa.keys \o sa.keys, md)

\* addOrUpdateSong from the loop over md.moreArtists on
SongOfPrimary(pa, md) == SongOfArtists(pa, GetArtists(pa.d, md.moreArtists), md)

\* addOrUpdateSong(md): the database afterwards; threw when getSongKey threw
\* (the artists and the album made before the throw stay)
addOrUpdateSong(d, md) == SongOfPrimary(GetArtists(d, md.artist), md)

\* Removes duplicates, keeping first occurrences: [...new Set(array)]
RECURSIVE Dedup(_)
Dedup(s) ==
  IF s = <<>> THEN <<>>
  ELSE LET r == Dedup(SubSeq(s, 1, Len(s) - 1))
       IN IF Contains(r, s[Len(s)]) THEN r ELSE Append(r, s[Len(s)])

\* In delSongByKey, for an artist that keeps songs: the artist leaves the
\* primaryArtists of each of its albums on which no remaining song names it
PruneArtist(d, artistKey, albumKeys) ==
  LET lists(k) == \E i \in 1..Len(d.albums[k].songs) :
                     /\ d.albums[k].songs[i] \in DOMAIN d.songs
                     /\ LET sng == d.songs[d.albums[k].songs[i]]
                        IN Contains(sng.artistIds, artistKey)
                           \/ Contains(sng.secondaryIds, artistKey)
      hit == { k \in Range(albumKeys) \cap DOMAIN d.albums :
                 ~lists(k) /\ Contains(d.albums[k].primaryArtists, artistKey) }
      newAlbums == [k \in DOMAIN d.albums |->
                      IF k \in hit
                      THEN [d.albums[k] EXCEPT
                              !.primaryArtists = RemoveAt(@, IndexOf(@, artistKey))]
                      ELSE d.albums[k]]
      newSongs == [k \in DOMAIN d.songs |->
                      IF \E a \in hit : d.albums[a].shared = k
                      THEN [d.songs[k] EXCEPT
                              !.artistIds = RemoveAt(@, IndexOf(@, artistKey))]
                      ELSE d.songs[k]]
  IN [d EXCEPT !.albums = newAlbums, !.songs = newSongs]

\* The loop of delSongByKey over the song's artists
RECURSIVE DelFromArtists(_, _, _)
DelFromArtists(d, keys, songKey) ==
  IF keys = <<>> THEN d
  ELSE LET artistKey == Head(keys)
           d1 ==
             IF artistKey \notin DOMAIN d.artists THEN d
             ELSE LET theArtist == d.artists[artistKey]
                      theEntry == IndexOf(theArtist.songs, songKey)
                  IN IF theEntry = 0 THEN d
                     ELSE IF Len(theArtist.songs) = 1
                     THEN [d EXCEPT !.artists = Without(@, artistKey),
                                    !.nameIdx = Without(@, normalizeName(theArtist.name))]
                     ELSE PruneArtist(
                            [d EXCEPT !.artists[artistKey].songs = RemoveAt(@, theEntry)],
                            artistKey, theArtist.albums)
       IN DelFromArtists(d1, Tail(keys), songKey)

\* delSongByKey(key): the database afterwards and the returned flag
delSongByKey(d, key) ==
  IF key \notin DOMAIN d.songs THEN [d |-> d, ret |-> FALSE]
  ELSE LET theSong == d.songs[key]
           d0 == [d EXCEPT
                    !.songs = Without(@, key),
                    !.albums = [k \in DOMAIN @ |->
                                  IF @[k].shared = key THEN [@[k] EXCEPT !.shared = NoSong]
                                  ELSE @[k]]]
           d1 ==
             IF theSong.albumId \notin DOMAIN d0.albums THEN d0
             ELSE LET theAlbum == d0.albums[theSong.albumId]
                      theEntry == IndexOf(theAlbum.songs, key)
                  IN IF theEntry = 0 THEN d0
                     ELSE IF Len(theAlbum.songs) = 1
                     THEN [d0 EXCEPT
                             !.albums = Without(@, theAlbum.key),
                             !.titleIdx = MultiMapRemove(@, normalizeName(theAlbum.title),
                                                         theAlbum.key)]
                     ELSE [d0 EXCEPT !.albums[theAlbum.key].songs = RemoveAt(@, theEntry)]
       IN [d |-> DelFromArtists(d1, Dedup(theSong.artistIds \o theSong.secondaryIds), key),
           ret |-> TRUE]

\* ------------------------------------------------- audio file index objects
\* An AudioFileIndex object is [location, fragmentHash, hashStr, songList,
\* existingSongKeys]; the file system is a function from the paths of the audio
\* files that exist to the metadata read from them.
p1 == <<"a", "d", "f1">>
p2 == <<"a", "d", "f2">>
p3 == <<"a", "e", "f3">>
AllPaths == <<p1, p2, p3>>
LocA == <<"a">>
LocB == <<"a", "e">>
Locations == {LocA, LocB}

\* The audio files under a location, in path order (the file index's listing)
FilesUnder(dk, loc) == Keep(AllPaths, { p \in DOMAIN dk : IsPrefix(loc, p) })

\* The text of a relative path cut at its commas: the pieces, in order.  A
\* component holds at most one comma.
HasComma(w) == w = "g,h"
LeftOfComma(w) == IF w = "g,h" THEN "g" ELSE w
RightOfComma(w) == IF w = "g,h" THEN "h" ELSE w
RECURSIVE CommaFields(_)
CommaFields(rel) ==
  LET at == { i \in 1..Len(rel) : HasComma(rel[i]) }
  IN IF at = {} THEN <<rel>>
     ELSE LET i == CHOOSE k \in at : \A j \in at : k <= j
          IN <<SubSeq(rel, 1, i - 1) \o <<LeftOfComma(rel[i])>>>>
             \o CommaFields(<<RightOfComma(rel[i])>> \o SubSeq(rel, i + 1, Len(rel)))

\* saveExistingSongKeys: the text of the 'songKeys' item, one line
\* n.toString(36) + ',' + s per entry.  A line is kept as its comma-separated
\* fields, the number first.
SongKeysText(keys) == { <<h>> \o CommaFields(keys[h]) : h \in DOMAIN keys }

\* The constructor's reading of the item: line.split(',', 2) keeps the first
\* two fields of a line, lines without two fields are dropped
ParseSongKeys(text) ==
  LET ok == { l \in text : Len(l) >= 2 /\ l[2] # <<>> }
  IN [h \in { l[1] : l \in ok } |-> (CHOOSE l \in ok : l[1] = h)[2]]

\* The persisted 'songKeys' item of a location once every pending save has been
\* written: the text of the newest AFI object made for it
SavedSongKeys(d, loc) ==
  LET prev == { i \in 1..Len(d.afis) : d.afis[i].location = loc }
  IN IF prev = {} THEN {}
     ELSE SongKeysText(d.afis[CHOOSE i \in prev : \A j \in prev : j <= i].existingSongKeys)

\* MakeAudioFileIndex(locationName, fragmentHash) with songKeyText the 'songKeys'
\* item it reads: the new object is registered by addIndex and lists the audio
\* files found under its location
MakeIndexFrom(d, loc, fragmentHash, dk, songKeyText) ==
  LET id == Len(d.afis) + 1
      obj == [location |-> loc, fragmentHash |-> fragmentHash, hashStr |-> -1,
              songList |-> FilesUnder(dk, loc),
              existingSongKeys |-> ParseSongKeys(songKeyText)]
      reg == addIndex([d EXCEPT !.afis = Append(@, obj)], fragmentHash, loc, id)
  IN [d |-> [reg.d EXCEPT !.afis[id].hashStr = reg.u8], id |-> id]

\* MakeAudioFileIndex(locationName, fragmentHash) after the saves of the
\* objects made before have been written
MakeAudioFileIndex(d, loc, fragmentHash, dk) ==
  MakeIndexFrom(d, loc, fragmentHash, dk, SavedSongKeys(d, loc))

\* getMetadataForSong(pathName): the metadata of the file, originalPath the full path
getMetadataForSong(dk, p) == dk[p]

\* addSongToAfi(filePath, afi)
addSongToAfi(d, p, dk) == addOrUpdateSong(d, getMetadataForSong(dk, p)).d

\* delSongFromAfi(filepath, afi)
delSongFromAfi(d, p, id) ==
  LET mk == makeSongKey(d, id, p)
  IN IF mk.key \in DOMAIN mk.d.songs THEN delSongByKey(mk.d, mk.key)
     ELSE [d |-> mk.d, ret |-> FALSE]

\* idx.forEachAudioFile((fp) => addSongToAfi(fp, idx))
RECURSIVE AddEach(_, _, _)
AddEach(d, ps, dk) ==
  IF ps = <<>> THEN d ELSE AddEach(addSongToAfi(d, Head(ps), dk), Tail(ps), dk)

\* theIdx.forEachAudioFile((fp) => delSongFromAfi(fp, theIdx))
RECURSIVE DelEach(_, _, _)
DelEach(d, ps, id) ==
  IF ps = <<>> THEN d ELSE DelEach(delSongFromAfi(d, Head(ps), id).d, Tail(ps), id)

\* The file index's rescan: the add handler on each new file, the delete
\* handler on each file that is gone, in path order
RECURSIVE ScanEach(_, _, _, _, _)
ScanEach(d, ps, id, old, dk) ==
  IF ps = <<>> THEN d
  ELSE LET p == Head(ps)
           now == p \in DOMAIN dk /\ IsPrefix(d.afis[id].location, p)
           d1 == IF now /\ ~Contains(old, p) THEN addSongToAfi(d, p, dk)
                 ELSE IF ~now /\ Contains(old, p) THEN delSongFromAfi(d, p, id).d
                 ELSE d
       IN ScanEach(d1, Tail(ps), id, old, dk)

\* list.concat([...adds]).filter((val) => !dels.has(val))
updateList(list, adds, dels) == Keep(list \o adds, Range(list \o adds) \ dels)

\* afi.rescanFiles(addAudioFile, delAudioFile)
rescanFiles(d, id, dk) ==
  LET old == d.afis[id].songList
      now == FilesUnder(dk, d.afis[id].location)
      adds == Keep(now, Range(now) \ Range(old))
      dels == Range(old) \ Range(now)
      d1 == ScanEach(d, AllPaths, id, old, dk)
  IN [d1 EXCEPT !.afis[id].songList = updateList(old, adds, dels)]

\* ------------------------------------------------------------ keyword search
\* A Searchable answers a term with the keys whose text has a word that the
\* term matches; a term is one case-folded word
Matches(text, term) == \E i \in 1..Len(text) : Lower(text[i]) = term

NoIndex == [built |-> FALSE, songs |-> <<>>, albums |-> <<>>, artists |-> <<>>]
NoResults == [songs |-> {}, albums |-> {}, artists |-> {}]
NoAnswer == [term |-> "", res |-> NoResults]

\* rebuildIndex(): the three Searchables over the current keys and texts
rebuildIndex(d) ==
  [built |-> TRUE,
   songs |-> [k \in DOMAIN d.songs |-> d.songs[k].title],
   albums |-> [k \in DOMAIN d.albums |-> d.albums[k].title],
   artists |-> [k \in DOMAIN d.artists |-> d.artists[k].name]]

\* The lookups of searchIndex(substr, terms) for a single term
Lookup(index, term) ==
  [songs |-> { k \in DOMAIN index.songs : Matches(index.songs[k], term) },
   albums |-> { k \in DOMAIN index.albums : Matches(index.albums[k], term) },
   artists |-> { k \in DOMAIN index.artists : Matches(index.artists[k], term) }]

\* searchIndex(substr, terms): the index afterwards and the results
searchIndex(index, d, term) ==
  LET ix == IF ~index.built THEN rebuildIndex(d) ELSE index
  IN [index |-> ix, res |-> Lookup(ix, term)]

\* ------------------------------------------------------------------ inputs
\* A complete metadata record
MD(path, artist, more, album, year, vaType, disk, diskName, title) ==
  [originalPath |-> path, artist |-> artist, moreArtists |-> more, album |-> album,
   year |-> year, vaType |-> vaType, disk |-> disk, diskName |-> diskName,
   track |-> 1, title |-> title]

X == <<"X">>
TheX == <<"The", "X">>
Y == <<"Y">>
Z == <<"Z">>
T == <<"T">>
TheT == <<"The", "T">>
U == <<"U">>

\* The metadata records handed to addOrUpdateSong
Metadata ==
  { MD(p1, <<X>>, <<>>, T, 0, "", NoDisk, "", T),
    MD(p1, <<X, Y>>, <<>>, T, 0, "", NoDisk, "", T),
    MD(p1, <<TheX>>, <<X>>, T, 0, "", NoDisk, "", U),
    MD(p1, <<X>>, <<>>, U, 0, "", NoDisk, "", U),
    MD(p2, <<Y>>, <<>>, T, 0, "", NoDisk, "", T),
    MD(p2, <<X, Y>>, <<>>, T, 0, "", NoDisk, "", U),
    MD(p2, <<X>>, <<>>, TheT, 1, "", 1, "d1", T),
    MD(p2, <<Y>>, <<>>, T, 0, "va", 2, "", T),
    MD(p3, <<X>>, <<>>, T, 0, "", NoDisk, "", T),
    MD(p3, <<X>>, <<Y>>, U, 0, "", NoDisk, "", U),
    MD(p3, <<Z>>, <<>>, T, 0, "ost", NoDisk, "", U) }

\* The metadata a file at a path can hold
FileMetadata ==
  { MD(p1, <<X>>, <<>>, T, 0, "", NoDisk, "", T),
    MD(p1, <<TheX>>, <<X>>, T, 0, "", NoDisk, "", U),
    MD(p2, <<Y>>, <<>>, T, 0, "", NoDisk, "", T),
    MD(p2, <<X, Y>>, <<>>, T, 0, "", NoDisk, "", U),
    MD(p3, <<X>>, <<>>, T, 0, "", NoDisk, "", T),
    MD(p3, <<X>>, <<Y>>, U, 0, "", NoDisk, "", U) }

Terms == {"t", "x"}

\* ------------------------------------------------------------------- state
VARIABLES
  dbSongs, dbAlbums, dbArtists,       \* data.dbSongs / dbAlbums / dbArtists
  albumTitleIndex, artistNameIndex,   \* data.albumTitleIndex / artistNameIndex
  artistHash,                         \* module-level artistHash
  afis,                               \* the AudioFileIndex objects made so far
  lengthSortedPaths, indexKeyLookup,  \* the registry of AudioFileIndex.ts
  dbAudioIndices,                     \* data.dbAudioIndices, in insertion order
  keywordIndex,                       \* data.keywordIndex
  disk,                               \* the audio files on the file system
  busy,                               \* the single waiter is held
  pc, visited, scanned,               \* each refresh() call: position, AFIs done
  results,                            \* the term and the answer of a searchIndex
                                      \* call no other call has followed
  chain,                              \* progress of an add-then-remove round trip
  plain,                              \* every addOrUpdateSong call so far added a
                                      \* song under a key dbSongs did not hold
  adds, diskOps                       \* calls and file changes so far

dbVars == <<dbSongs, dbAlbums, dbArtists, albumTitleIndex, artistNameIndex,
            artistHash, afis, lengthSortedPaths, indexKeyLookup>>
refreshVars == <<busy, pc, visited, scanned>>

VARIABLES
  persist,                            \* the 'songKeys' item under each location
  armed,                              \* the AFI objects whose saveSongKeys is pending
  issued,                             \* the keys makeSongKey has returned so far
  settled                             \* every AFI object was made with no save pending

keyVars == <<persist, armed, issued, settled>>

VARIABLES
  blob,                               \* a blob store: keyToPath, pathToKeys, sn, lastSeqNumSave
  blobFiles,                          \* the payload files in its directory
  blobIndex,                          \* index.txt, <<>> while there is none
  blobArmed,                          \* saveIndexInTheFuture is pending
  blobHist                            \* the last call, and what the calls so far
                                      \* stored and removed

blobVars == <<blob, blobFiles, blobIndex, blobArmed, blobHist>>

VARIABLES
  mds,                                \* the two metadata stores of an AFI
  mdItems,                            \* their items in the persist of the AFI
  answer,                             \* the last getMetadataForSong call and its result
  ovHist,                             \* per path, the fields updateMetadata was given
  parses,                             \* the paths whose tag parse failed, and those parsed again after
  updates                             \* updateMetadata calls so far

metaVars == <<mds, mdItems, answer, ovHist, parses, updates>>

VARIABLES
  dbItem,                             \* the database's item in its persist
  loaded                              \* the last load(): what it found and what it left

saveVars == <<dbItem, loaded>>

VARIABLES
  pictures,                           \* data.pictures of each AFI object: the store and its files
  artistStore,                        \* the artistStore of the database
  pic                                 \* the last setPicture call and the getPicture after it

picVars == <<pictures, artistStore, pic>>

VARIABLES
  canon                               \* the last getCanonicalFileName call: the song and the name's pieces

nameVars == <<canon>>

VARIABLES
  diff                                \* the running SortedArrayDiff: lists, positions, handler calls

scanVars == <<diff>>

VARIABLES
  inflight                            \* the putMany calls waiting at await fs.writeFile

concVars == <<inflight>>
\* What the calls of the database leave alone
auxVars == <<keyVars, blobVars, metaVars, saveVars, picVars, nameVars, scanVars, concVars>>
vars == <<dbVars, dbAudioIndices, keywordIndex, disk, refreshVars, results, chain,
          plain, adds, diskOps, auxVars>>

\* The database and registry as the record the handlers are written over
D ==
  [songs |-> dbSongs, albums |-> dbAlbums, artists |-> dbArtists,
   titleIdx |-> albumTitleIndex, nameIdx |-> artistNameIndex, ahash |-> artistHash,
   afis |-> afis, paths |-> lengthSortedPaths, lookup |-> indexKeyLookup]

Store(d) ==
  /\ dbSongs' = d.songs
  /\ dbAlbums' = d.albums
  /\ dbArtists' = d.artists
  /\ albumTitleIndex' = d.titleIdx
  /\ artistNameIndex' = d.nameIdx
  /\ artistHash' = d.ahash
  /\ afis' = d.afis
  /\ lengthSortedPaths' = d.paths
  /\ indexKeyLookup' = d.lookup

\* Number of concurrent refresh() calls
MaxRefresh == 2
\* Number of file creations and deletions in one behaviour
MaxDiskOps == 2
Calls == 1..MaxRefresh

NoChain == [kind |-> "none", key |-> NoSong, loc |-> <<>>, stage |-> 0,
            r1 |-> FALSE, r2 |-> FALSE]

\* getFlatDatabase() is empty and so are the two name indices
GraphEmpty(d) ==
  /\ DOMAIN d.songs = {}
  /\ DOMAIN d.albums = {}
  /\ DOMAIN d.artists = {}
  /\ DOMAIN d.titleIdx = {}
  /\ DOMAIN d.nameIdx = {}

\* dbAudioIndices.get(thePath): the position of the entry, 0 when there is none
IndexAt(loc) ==
  IF \E i \in 1..Len(dbAudioIndices) : dbAudioIndices[i].loc = loc
  THEN CHOOSE i \in 1..Len(dbAudioIndices) : dbAudioIndices[i].loc = loc
  ELSE 0

\* A metadata store after load() found no item: empty, and marked dirty
StoreNames == {"metadataCache", "metadataOverride"}
NoItem == [store |-> <<>>, fails |-> {}, none |-> TRUE]
EmptyStore == [store |-> <<>>, stopTrying |-> {}, dirty |-> TRUE, armed |-> FALSE, unsaved |-> FALSE]
NoMd == <<>>
NoCall == [path |-> <<>>, res |-> NoMd]
InitMeta ==
  /\ mds = [n \in StoreNames |-> EmptyStore]
  /\ mdItems = [n \in StoreNames |-> NoItem]
  /\ answer = NoCall
  /\ ovHist = <<>>
  /\ parses = [failed |-> {}, again |-> {}]
  /\ updates = 0

\* A blob store opened on an empty directory; nothing called yet
NewStore == [keyToPath |-> <<>>, pathToKeys |-> <<>>, sn |-> 0, lastSeqNumSave |-> 0]
NoCalls == [call |-> "none", threw |-> FALSE, stored |-> <<>>, orphaned |-> {}, removed |-> {}]
InitBlob ==
  /\ blob = NewStore
  /\ blobFiles = <<>>
  /\ blobIndex = <<>>
  /\ blobArmed = FALSE
  /\ blobHist = NoCalls

\* Nothing saved, no save pending, no key returned
InitKeys ==
  /\ persist = [loc \in Locations |-> {}]
  /\ armed = {}
  /\ issued = {}
  /\ settled = TRUE

\* No database was saved and load() was not called
NoFlat ==
  [none |-> TRUE, dbSongs |-> <<>>, dbAlbums |-> <<>>, dbArtists |-> <<>>,
   albumTitleIndex |-> <<>>, artistNameIndex |-> <<>>, indices |-> <<>>]
NoLoad == [done |-> FALSE, ok |-> FALSE, found |-> NoFlat, left |-> NoFlat]
InitSave ==
  /\ dbItem = NoFlat
  /\ loaded = NoLoad

\* Empty picture stores, no picture call yet
NoPics == [b |-> NewStore, files |-> <<>>, threw |-> FALSE]
NoPic ==
  [sets |-> 0, key |-> <<"S", -1, -1>>, bytes |-> "undefined", adds |-> 0, afis |-> 0,
   asked |-> FALSE, res |-> "undefined"]
InitPic ==
  /\ pictures = [id \in 1..MaxAfis |-> NoPics]
  /\ artistStore = NoPics
  /\ pic = NoPic

\* getCanonicalFileName was not called
NoName ==
  [asked |-> FALSE, onDisk |-> 0, disk |-> 0, track |-> 0, diskNames |-> <<>>,
   piece |-> [disk |-> 0, name |-> ""], trackStr |-> <<>>]
InitName == canon = NoName

\* SortedArrayDiff was not called
NoDiff ==
  [running |-> FALSE, done |-> FALSE, oldList |-> <<>>, newList |-> <<>>,
   oldIndex |-> 0, newIndex |-> 0, calls |-> <<>>, iters |-> 0]
InitScan == diff = NoDiff

InitConc == inflight = {}

InitAux ==
  InitKeys /\ InitBlob /\ InitMeta /\ InitSave /\ InitPic /\ InitName /\ InitScan /\ InitConc

Init ==
  /\ dbSongs = <<>>
  /\ dbAlbums = <<>>
  /\ dbArtists = <<>>
  /\ albumTitleIndex = <<>>
  /\ artistNameIndex = <<>>
  /\ artistHash = <<>>
  /\ afis = <<>>
  /\ lengthSortedPaths = <<>>
  /\ indexKeyLookup = <<>>
  /\ dbAudioIndices = <<>>
  /\ keywordIndex = NoIndex
  /\ disk = <<>>
  /\ busy = FALSE
  /\ pc = [c \in Calls |-> "idle"]
  /\ visited = [c \in Calls |-> {}]
  /\ scanned = [c \in Calls |-> FALSE]
  /\ results = NoAnswer
  /\ chain = NoChain
  /\ plain = TRUE
  /\ adds = 0
  /\ diskOps = 0
  /\ InitAux

\* addAudioFileIndex(idx), idx the object mk.id just made for loc
addAudioFileIndex(mk, loc) ==
  LET known == IndexAt(loc) # 0
  IN /\ Store(IF known THEN mk.d ELSE AddEach(mk.d, mk.d.afis[mk.id].songList, disk))
     /\ dbAudioIndices' = IF known THEN dbAudioIndices
                           ELSE Append(dbAudioIndices, [loc |-> loc, index |-> mk.id])
     /\ chain' = IF GraphEmpty(D) /\ dbAudioIndices = <<>>
                  THEN [NoChain EXCEPT !.kind = "loc", !.loc = loc, !.stage = 1,
                                       !.r1 = ~known]
                  ELSE NoChain

\* addFileLocation(filePath)
AddFileLocation(loc) ==
  /\ Len(afis) < MaxAfis
  /\ addAudioFileIndex(MakeAudioFileIndex(D, loc, FragmentHash(loc), disk), loc)
  /\ results' = NoAnswer
  /\ UNCHANGED <<auxVars, keywordIndex, disk, refreshVars, plain, adds, diskOps>>

\* removeFileLocation(filePath)
RemoveFileLocation(loc) ==
  /\ LET at == IndexAt(loc)
         id == dbAudioIndices[at].index
         d2 == IF at = 0 THEN D ELSE DelEach(D, afis[id].songList, id)
     IN /\ Store(d2)
        /\ dbAudioIndices' = IF at = 0 THEN dbAudioIndices ELSE RemoveAt(dbAudioIndices, at)
        /\ chain' = IF chain.kind = "loc" /\ chain.stage = 1 /\ chain.loc = loc
                     THEN [chain EXCEPT !.stage = 2, !.r2 = (at # 0)]
                     ELSE NoChain
  /\ results' = NoAnswer
  /\ UNCHANGED <<auxVars, keywordIndex, disk, refreshVars, plain, adds, diskOps>>

\* The outcome r of addOrUpdateSong is stored
SongAdded(r) ==
  /\ Store(r.d)
  /\ plain' = (plain /\ ~r.threw /\ r.key \notin DOMAIN dbSongs)
  /\ chain' = IF GraphEmpty(D) /\ ~r.threw
               THEN [NoChain EXCEPT !.kind = "song", !.key = r.key, !.stage = 1,
                                    !.r1 = TRUE]
               ELSE NoChain

\* addOrUpdateSong(md)
AddOrUpdateSong(md) ==
  /\ adds < MaxAdds
  /\ adds' = adds + 1
  /\ SongAdded(addOrUpdateSong(D, md))
  /\ results' = NoAnswer
  /\ UNCHANGED <<auxVars, dbAudioIndices, keywordIndex, disk, refreshVars, diskOps>>

\* delSongByKey(key)
DelSongByKey(key) ==
  /\ LET r == delSongByKey(D, key)
     IN /\ Store(r.d)
        /\ chain' = IF chain.kind = "song" /\ chain.stage = 1 /\ chain.key = key
                     THEN [chain EXCEPT !.stage = 2, !.r2 = r.ret]
                     ELSE NoChain
  /\ results' = NoAnswer
  /\ UNCHANGED <<auxVars, dbAudioIndices, keywordIndex, disk, refreshVars, plain, adds, diskOps>>

\* searchIndex(substr, terms)
SearchIndex(term) ==
  /\ LET r == searchIndex(keywordIndex, D, term)
     IN /\ keywordIndex' = r.index
        /\ results' = [term |-> term, res |-> r.res]
  /\ chain' = NoChain
  /\ UNCHANGED <<auxVars, dbVars, dbAudioIndices, disk, refreshVars, plain, adds, diskOps>>

\* A file appears on / disappears from the file system
CreateFile(md) ==
  /\ diskOps < MaxDiskOps
  /\ md.originalPath \notin DOMAIN disk
  /\ disk' = With(disk, md.originalPath, md)
  /\ diskOps' = diskOps + 1
  /\ UNCHANGED <<auxVars, dbVars, dbAudioIndices, keywordIndex, results, refreshVars, chain, plain, adds>>

DeleteFile(p) ==
  /\ diskOps < MaxDiskOps
  /\ p \in DOMAIN disk
  /\ disk' = Without(disk, p)
  /\ diskOps' = diskOps + 1
  /\ UNCHANGED <<auxVars, dbVars, dbAudioIndices, keywordIndex, results, refreshVars, chain, plain, adds>>

\* refresh() without the test of singleWaiter.wait(): the call scans at once
RefreshCallUnguarded(c) ==
  /\ pc[c] = "idle"
  /\ pc' = [pc EXCEPT ![c] = "scanning"]
  /\ busy' = TRUE
  /\ UNCHANGED <<auxVars, dbVars, dbAudioIndices, keywordIndex, results, disk, visited, scanned,
                 chain, plain, adds, diskOps>>

\* refresh(), up to the answer of singleWaiter.wait(): a free waiter is taken at
\* once, a held one makes the call wait
RefreshCall(c) ==
  /\ pc[c] = "idle"
  /\ IF busy
     THEN pc' = [pc EXCEPT ![c] = "waiting"] /\ busy' = busy
     ELSE pc' = [pc EXCEPT ![c] = "scanning"] /\ busy' = TRUE
  /\ UNCHANGED <<auxVars, dbVars, dbAudioIndices, keywordIndex, results, disk, visited, scanned,
                 chain, plain, adds, diskOps>>

\* singleWaiter.wait() answers true to a waiting call once the waiter was left
RefreshProceed(c) ==
  /\ pc[c] = "waiting"
  /\ ~busy
  /\ busy' = TRUE
  /\ pc' = [pc EXCEPT ![c] = "scanning"]
  /\ UNCHANGED <<auxVars, dbVars, dbAudioIndices, keywordIndex, results, disk, visited, scanned,
                 chain, plain, adds, diskOps>>

\* singleWaiter.wait() answers false: refresh() returns false
RefreshSkip(c) ==
  /\ pc[c] = "waiting"
  /\ busy
  /\ pc' = [pc EXCEPT ![c] = "false"]
  /\ UNCHANGED <<auxVars, dbVars, dbAudioIndices, keywordIndex, results, disk, busy, visited,
                 scanned, chain, plain, adds, diskOps>>

\* The next entry of dbAudioIndices the loop of refresh() has not visited; 0 if none
NextIndex(c) ==
  LET left == { i \in 1..Len(dbAudioIndices) : dbAudioIndices[i].index \notin visited[c] }
  IN IF left = {} THEN 0 ELSE CHOOSE i \in left : \A j \in left : i <= j

\* One turn of the loop of refresh(): await afi.rescanFiles(add, del)
RefreshScan(c) ==
  /\ pc[c] = "scanning"
  /\ NextIndex(c) # 0
  /\ LET id == dbAudioIndices[NextIndex(c)].index
     IN /\ Store(rescanFiles(D, id, disk))
        /\ visited' = [visited EXCEPT ![c] = @ \cup {id}]
  /\ scanned' = [scanned EXCEPT ![c] = TRUE]
  /\ results' = NoAnswer
  /\ UNCHANGED <<auxVars, dbAudioIndices, keywordIndex, disk, busy, pc, chain, plain,
                 adds, diskOps>>

\* The end of the loop: singleWaiter.leave() and return true
RefreshLeave(c) ==
  /\ pc[c] = "scanning"
  /\ NextIndex(c) = 0
  /\ busy' = FALSE
  /\ pc' = [pc EXCEPT ![c] = "true"]
  /\ UNCHANGED <<auxVars, dbVars, dbAudioIndices, keywordIndex, results, disk, visited, scanned,
                 chain, plain, adds, diskOps>>

\* The caller takes the answer; the call slot is free for the next refresh()
RefreshReturn(c) ==
  /\ pc[c] \in {"true", "false"}
  /\ pc' = [pc EXCEPT ![c] = "idle"]
  /\ visited' = [visited EXCEPT ![c] = {}]
  /\ scanned' = [scanned EXCEPT ![c] = FALSE]
  /\ UNCHANGED <<auxVars, dbVars, dbAudioIndices, keywordIndex, results, disk, busy, chain, plain,
                 adds, diskOps>>

\* The database driven through its song API; the keys a caller can hold are
\* the keys of the songs of the database
Next ==
  \/ \E loc \in Locations : AddFileLocation(loc)
  \/ \E loc \in Locations : RemoveFileLocation(loc)
  \/ \E md \in Metadata : AddOrUpdateSong(md)
  \/ \E key \in DOMAIN dbSongs : DelSongByKey(key)

Spec == Init /\ [][Next]_vars

\* The database with keyword searches between the calls of its song API
SearchMetadata ==
  { MD(p1, <<X>>, <<>>, T, 0, "", NoDisk, "", T),
    MD(p2, <<X, Y>>, <<>>, T, 0, "", NoDisk, "", U),
    MD(p3, <<X>>, <<Y>>, U, 0, "", NoDisk, "", U) }

NextSearch ==
  \/ AddFileLocation(LocA)
  \/ \E md \in SearchMetadata : AddOrUpdateSong(md)
  \/ \E key \in DOMAIN dbSongs : DelSongByKey(key)
  \/ \E term \in Terms : SearchIndex(term)

SpecSearch == Init /\ [][NextSearch]_vars

\* The database driven by the file system: locations, file changes, refreshes
FilesAt(p) == { md \in FileMetadata : md.originalPath = p }
Disks ==
  { dk \in UNION { [P -> FileMetadata] : P \in SUBSET Range(AllPaths) } :
      \A p \in DOMAIN dk : dk[p].originalPath = p }

InitLoc ==
  /\ dbSongs = <<>>
  /\ dbAlbums = <<>>
  /\ dbArtists = <<>>
  /\ albumTitleIndex = <<>>
  /\ artistNameIndex = <<>>
  /\ artistHash = <<>>
  /\ afis = <<>>
  /\ lengthSortedPaths = <<>>
  /\ indexKeyLookup = <<>>
  /\ dbAudioIndices = <<>>
  /\ keywordIndex = NoIndex
  /\ results = NoAnswer
  /\ disk \in Disks
  /\ busy = FALSE
  /\ pc = [c \in Calls |-> "idle"]
  /\ visited = [c \in Calls |-> {}]
  /\ scanned = [c \in Calls |-> FALSE]
  /\ chain = NoChain
  /\ plain = TRUE
  /\ adds = 0
  /\ diskOps = 0
  /\ InitAux

NextLoc ==
  \/ \E loc \in Locations : AddFileLocation(loc)
  \/ \E loc \in Locations : RemoveFileLocation(loc)
  \/ \E md \in FileMetadata : CreateFile(md)
  \/ \E p \in Range(AllPaths) : DeleteFile(p)
  \/ RefreshCall(1)
  \/ RefreshScan(1)
  \/ RefreshLeave(1)
  \/ RefreshReturn(1)

SpecLoc == InitLoc /\ [][NextLoc]_vars

\* Concurrent refresh() calls over registered locations and a changing file system
NextRefresh ==
  \/ \E loc \in Locations : AddFileLocation(loc)
  \/ \E md \in FilesAt(p1) \cup FilesAt(p3) : CreateFile(md)
  \/ \E p \in {p1, p3} : DeleteFile(p)
  \/ \E c \in Calls : RefreshCall(c)
  \/ \E c \in Calls : RefreshProceed(c)
  \/ \E c \in Calls : RefreshSkip(c)
  \/ \E c \in Calls : RefreshScan(c)
  \/ \E c \in Calls : RefreshLeave(c)
  \/ \E c \in Calls : RefreshReturn(c)

SpecRefresh == Init /\ [][NextRefresh]_vars

\* ------------------------------------------------------------------ claims
\* The artist keys a song lists, primary or secondary
ArtistsOf(song) == Range(song.artistIds) \cup Range(song.secondaryIds)

\* C1: in every reachable state, every song's album exists in dbAlbums and its
\* songs list contains the song's key, and every key in an album's songs list
\* resolves to a song of dbSongs whose albumId is that album's key.
C1_SongAlbumConsistent ==
  /\ \A k \in DOMAIN dbSongs :
        /\ dbSongs[k].albumId \in DOMAIN dbAlbums
        /\ Contains(dbAlbums[dbSongs[k].albumId].songs, k)
  /\ \A a \in DOMAIN dbAlbums : \A k \in Range(dbAlbums[a].songs) :
        k \in DOMAIN dbSongs /\ dbSongs[k].albumId = a

\* C2: in every reachable state, every artist a song lists (primary or
\* secondary) exists in dbArtists and its songs list contains the song's key,
\* and every key in an artist's songs list resolves to a song of dbSongs that
\* lists that artist.
C2_SongArtistConsistent ==
  /\ \A k \in DOMAIN dbSongs : \A r \in ArtistsOf(dbSongs[k]) :
        r \in DOMAIN dbArtists /\ Contains(dbArtists[r].songs, k)
  /\ \A r \in DOMAIN dbArtists : \A k \in Range(dbArtists[r].songs) :
        k \in DOMAIN dbSongs /\ r \in ArtistsOf(dbSongs[k])

\* C3: in every reachable state, every album key in an artist's albums list
\* resolves to an album of dbAlbums, and the artist is one of its primary
\* artists or is listed by a song on it.
C3_ArtistAlbumsResolve ==
  \A r \in DOMAIN dbArtists : \A a \in Range(dbArtists[r].albums) :
    /\ a \in DOMAIN dbAlbums
    /\ \/ Contains(dbAlbums[a].primaryArtists, r)
       \/ \E k \in Range(dbAlbums[a].songs) \cap DOMAIN dbSongs : r \in ArtistsOf(dbSongs[k])

\* C3, its first part in the states where the links between songs, albums and
\* artists are consistent (C1 and C2 hold): every album key in an artist's
\* albums list resolves to an album of dbAlbums.
C3_ListedAlbumsExist ==
  (C1_SongAlbumConsistent /\ C2_SongArtistConsistent) =>
    \A r \in DOMAIN dbArtists : Range(dbArtists[r].albums) \subseteq DOMAIN dbAlbums

\* C4: in every reachable state, albumTitleIndex maps each normalized title to
\* exactly the keys of the albums of dbAlbums with that normalized title.
C4_TitleIndexExact ==
  /\ \A a \in DOMAIN dbAlbums :
        /\ normalizeName(dbAlbums[a].title) \in DOMAIN albumTitleIndex
        /\ Contains(albumTitleIndex[normalizeName(dbAlbums[a].title)], a)
  /\ \A nt \in DOMAIN albumTitleIndex : \A a \in Range(albumTitleIndex[nt]) :
        a \in DOMAIN dbAlbums /\ normalizeName(dbAlbums[a].title) = nt

\* C4, for the behaviours in which every addOrUpdateSong call returned and added
\* a song on a path the database did not hold: albumTitleIndex maps each
\* normalized title to exactly the keys of the albums with that normalized title.
C4_TitleIndexExactAfterAdds == plain => C4_TitleIndexExact

C6_PrimaryArtistsListAlbum ==
  \A a \in DOMAIN dbAlbums : dbAlbums[a].vatype = "" =>
    \A r \in Range(dbAlbums[a].primaryArtists) :
      r \in DOMAIN dbArtists /\ Contains(dbArtists[r].albums, a)

\* C6, for the behaviours in which every addOrUpdateSong call returned and added
\* a song on a path the database did not hold: every primary artist of an album
\* with an empty vatype exists and lists the album.
C6_PrimaryArtistsListAlbumAfterAdds == plain => C6_PrimaryArtistsListAlbum

\* C7: from an empty database, addOrUpdateSong(md) followed by delSongByKey of the
\* new song's key returns true and leaves the five maps empty.
C7_AddThenDeleteIsEmpty ==
  (chain.kind = "song" /\ chain.stage = 2) => (chain.r2 /\ GraphEmpty(D))

\* C8: from an empty database, addFileLocation(L), any number of refresh() calls,
\* then removeFileLocation(L) return true both times and leave the graph empty.
C8_AddThenRemoveLocationIsEmpty ==
  (chain.kind = "loc" /\ chain.stage = 2) =>
    (chain.r1 /\ chain.r2 /\ DOMAIN dbSongs = {} /\ DOMAIN dbAlbums = {}
       /\ DOMAIN dbArtists = {})

C10_SearchReflectsGraph ==
  results.term # "" => results.res = Lookup(rebuildIndex(D), results.term)

\* C10, for the behaviours in which every addOrUpdateSong call returned and
\* added a song on a path the database did not hold: a searchIndex call that
\* has returned gave the results a freshly built index gives.
C10_SearchReflectsGraphAfterAdds == plain => C10_SearchReflectsGraph

\* The AFI objects made for a location that the registry still holds: in
\* lengthSortedPaths (what GetIndexForPath walks) or in indexKeyLookup (what
\* GetIndexForKey reads)
RegisteredAt(loc) ==
  { id \in 1..Len(afis) :
      /\ afis[id].location = loc
      /\ \/ Contains(lengthSortedPaths, id)
         \/ \E h \in DOMAIN indexKeyLookup : indexKeyLookup[h] = id }

\* C13: after removeFileLocation(L) has returned true, getLocations() does not
\* contain L and no AFI of L is left in the registry: GetIndexForPath of a path
\* under L and GetIndexForKey of a key of that AFI return nothing.
C13_RemovedLocationDeregistered ==
  (chain.kind = "loc" /\ chain.stage = 2 /\ chain.r2) =>
    /\ IndexAt(chain.loc) = 0
    /\ RegisteredAt(chain.loc) = {}
    /\ \A p \in Range(AllPaths) :
         IsPrefix(chain.loc, p) =>
           \/ GetIndexForPath(D, p) = 0
           \/ afis[GetIndexForPath(D, p)].location # chain.loc

\* ------------------------------------------------- an AFI driven directly
\* MakeAudioFileIndex, makeSongKey and destroy called by the owner of the AFI,
\* one AFI object per root at a time, with the debounced save of the song keys
\* as a step of its own.
p1u == <<"a", "d", "F1">>
p4 == <<"a", "d", "g,h">>
KeyPaths == {p1, p2, p1u, p4}
\* Number of AFI objects made in one behaviour
MaxIndexes == 2

otherVars == <<dbSongs, dbAlbums, dbArtists, albumTitleIndex, artistNameIndex, artistHash, dbAudioIndices, keywordIndex, disk, refreshVars, results, chain, plain, adds, diskOps, saveVars, picVars, nameVars, scanVars, concVars>>

\* The registry after a call
StoreIndexes(d) ==
  /\ afis' = d.afis
  /\ lengthSortedPaths' = d.paths
  /\ indexKeyLookup' = d.lookup

\* MakeAudioFileIndex(loc, h32(loc, 0xdeadbeef)): the constructor reads 'songKeys'
MakeIndex(loc) ==
  /\ Len(afis) < MaxIndexes
  /\ RegisteredAt(loc) = {}
  /\ StoreIndexes(MakeIndexFrom(D, loc, FragmentHash(loc), disk, persist[loc]).d)
  /\ settled' = (settled /\ armed = {})
  /\ UNCHANGED <<otherVars, blobVars, metaVars, persist, armed, issued>>

\* afi.makeSongKey(p): the key is returned and saveSongKeys() arms the save
MakeKey(id, p) ==
  /\ Contains(lengthSortedPaths, id)
  /\ IsPrefix(afis[id].location, p)
  /\ LET mk == makeSongKey(D, id, p)
     IN /\ StoreIndexes(mk.d)
        /\ issued' = issued \cup {[id |-> id, loc |-> afis[id].location, path |-> p,
                                   key |-> mk.key]}
  /\ armed' = armed \cup {id}
  /\ UNCHANGED <<otherVars, blobVars, metaVars, persist, settled>>

\* The delay of saveSongKeys has passed: saveExistingSongKeys writes the item
SaveSongKeys(id) ==
  /\ id \in armed
  /\ persist' = [persist EXCEPT ![afis[id].location] = SongKeysText(afis[id].existingSongKeys)]
  /\ armed' = armed \ {id}
  /\ UNCHANGED <<otherVars, blobVars, metaVars, afis, lengthSortedPaths, indexKeyLookup, issued, settled>>

\* afi.destroy(): saveSongKeys(); delIndex(res)
Destroy(id) ==
  /\ Contains(lengthSortedPaths, id)
  /\ armed' = armed \cup {id}
  /\ StoreIndexes(delIndex(D, id))
  /\ UNCHANGED <<otherVars, blobVars, metaVars, persist, issued, settled>>

NextKeys ==
  \/ MakeIndex(LocA)
  \/ \E id \in 1..Len(afis), p \in KeyPaths : MakeKey(id, p)
  \/ \E id \in 1..Len(afis) : SaveSongKeys(id)
  \/ \E id \in 1..Len(afis) : Destroy(id)

SpecKeys == Init /\ [][NextKeys]_vars

\* C11: makeSongKey returns the same key for the same path under the same root
\* every time it is asked, by the same AFI object or by one made for the root
\* after the earlier one was destroyed, whatever other paths were keyed in between.
C11_SameKeyEveryTime ==
  \A a, b \in issued : (a.loc = b.loc /\ a.path = b.path) => a.key = b.key

\* C11 for the behaviours in which every save was written before the next AFI
\* object was made
C11_SameKeyAfterSavedRestart == settled => C11_SameKeyEveryTime

\* pathFromKeyOrPath(key) for a song key: the full path the key-to-path map of
\* the AFI object holds for it, <<>> when the key is not one of its keys
pathFromKeyOrPath(id, key) ==
  IF key[2] = afis[id].hashStr /\ key[3] \in DOMAIN afis[id].existingSongKeys
  THEN afis[id].location \o afis[id].existingSongKeys[key[3]]
  ELSE <<>>

\* Two paths keyed by one AFI object whose first hashes, h32(relPath,
\* fragmentHash), are equal
Collide(a, b) ==
  /\ a.id = b.id
  /\ a.path # b.path
  /\ H32(StrCode(RelPath(a.loc, a.path)), afis[a.id].fragmentHash)
       = H32(StrCode(RelPath(b.loc, b.path)), afis[b.id].fragmentHash)

\* C12: two different root-relative paths of one AFI whose 32-bit hashes are
\* equal get distinct song keys, a path keeps the key it got first, and each
\* key maps back to its own path through the key-to-path map.
C12_CollidingPathsDistinctKeys ==
  \A a, b \in issued :
    /\ Collide(a, b) => a.key # b.key
    /\ (a.id = b.id /\ a.path = b.path) => a.key = b.key
    /\ pathFromKeyOrPath(a.id, a.key) = a.path

\* ------------------------------------------------------------ the blob store
\* One store at a time on one directory.  A Map is the sequence of its
\* <<key, value>> entries in insertion order; a payload file is named by its
\* sequence number; the content of a payload is a letter.
BlobKeys == {"k1", "k2"}
BlobData == {"A", "B"}
KeyLists == {<<"k1">>, <<"k2">>, <<"k1", "k2">>, <<"k2", "k1">>}
\* Number of sequence numbers handed out in one behaviour
MaxSeq == 4
\* get(key) returns undefined
NoData == "undefined"

MapHas(m, k) == \E i \in 1..Len(m) : m[i][1] = k
MapGet(m, k) == m[CHOOSE i \in 1..Len(m) : m[i][1] = k][2]
MapSet(m, k, v) ==
  IF MapHas(m, k) THEN [i \in 1..Len(m) |-> IF m[i][1] = k THEN <<k, v>> ELSE m[i]]
  ELSE Append(m, <<k, v>>)
MapDelete(m, k) == SelectSeq(m, LAMBDA en : en[1] # k)

\* The keys keyToPath maps to a payload file
KeysOf(b, f) == { k \in BlobKeys : MapHas(b.keyToPath, k) /\ MapGet(b.keyToPath, k) = f }

\* get(key): the content of the file keyToPath names, undefined when the key is
\* not mapped or the file cannot be read
blobGet(b, files, k) ==
  IF MapHas(b.keyToPath, k) /\ MapGet(b.keyToPath, k) \in DOMAIN files
  THEN files[MapGet(b.keyToPath, k)]
  ELSE NoData

\* The loop of putMany
RECURSIVE SetKeys(_, _, _)
SetKeys(b, keys, filename) ==
  IF keys = <<>> THEN b
  ELSE SetKeys([b EXCEPT !.keyToPath = MapSet(@, Head(keys), filename),
                         !.pathToKeys = MultiMapSet(@, filename, Head(keys))],
               Tail(keys), filename)

\* putMany(data, keys), with saveIndex(filename) setting lastSeqNumSave
putMany(st, data, keys) ==
  LET filename == st.b.sn + 1
      b1 == SetKeys([st.b EXCEPT !.sn = filename], keys, filename)
  IN [b |-> [b1 EXCEPT !.lastSeqNumSave = filename],
      files |-> With(st.files, filename, data), threw |-> FALSE]

\* The loop of del; fs.rm rejects when the file is not there
RECURSIVE DelKeys(_, _)
DelKeys(st, keys) ==
  IF keys = <<>> \/ st.threw THEN st
  ELSE IF ~MapHas(st.b.keyToPath, Head(keys)) THEN DelKeys(st, Tail(keys))
  ELSE LET k == Head(keys)
           filename == MapGet(st.b.keyToPath, k)
           b1 == [st.b EXCEPT !.keyToPath = MapDelete(@, k),
                              !.pathToKeys = MultiMapRemove(@, filename, k)]
       IN IF filename \in DOMAIN b1.pathToKeys
          THEN DelKeys([st EXCEPT !.b = b1], Tail(keys))
          ELSE IF filename \in DOMAIN st.files
          THEN DelKeys([b |-> b1, files |-> Without(st.files, filename), threw |-> FALSE],
                       Tail(keys))
          ELSE [b |-> b1, files |-> st.files, threw |-> TRUE]

\* del(key | keys), with saveIndex(sn()) setting lastSeqNumSave
del(st, keys) ==
  LET r == DelKeys(st, keys)
  IN IF r.threw THEN r
     ELSE [r EXCEPT !.b.sn = @ + 1, !.b.lastSeqNumSave = r.b.sn + 1]

\* The loop of clear: one fs.rm per entry of keyToPath, in the order of the Map
RECURSIVE RmEach(_, _)
RmEach(files, entries) ==
  IF entries = <<>> THEN [files |-> files, threw |-> FALSE]
  ELSE IF Head(entries)[2] \in DOMAIN files
  THEN RmEach(Without(files, Head(entries)[2]), Tail(entries))
  ELSE [files |-> files, threw |-> TRUE]

\* clear(), up to lastSeqNumSave = sn()
clear(st) ==
  LET r == RmEach(st.files, st.b.keyToPath)
  IN IF r.threw THEN [b |-> st.b, files |-> r.files, threw |-> TRUE]
     ELSE [b |-> [keyToPath |-> <<>>, pathToKeys |-> <<>>, sn |-> st.b.sn + 1,
                  lastSeqNumSave |-> st.b.sn + 1],
           files |-> r.files, threw |-> FALSE]

\* [lastSeqNumSave, ...keyToPath].flat(): the lines of index.txt
RECURSIVE Flat(_)
Flat(m) == IF m = <<>> THEN <<>> ELSE <<Head(m)[1], Head(m)[2]>> \o Flat(Tail(m))
\* The index written without the entries of keyToPath
IndexTextLastOnly(b) == <<b.lastSeqNumSave>>
IndexText(b) == <<b.lastSeqNumSave>> \o Flat(b.keyToPath)

\* The loop of MakeBlobStore over the lines of index.txt, two lines a step
RECURSIVE LoadPairs(_, _, _)
LoadPairs(index, i, b) ==
  IF i + 1 > Len(index) THEN b
  ELSE LoadPairs(index, i + 2,
                 [b EXCEPT !.keyToPath = MapSet(@, index[i], index[i + 1]),
                           !.pathToKeys = MultiMapSet(@, index[i + 1], index[i])])

\* MakeBlobStore on a directory whose index.txt holds the lines index: the
\* sequence numbers go on after the first line
MakeBlobStore(index) ==
  IF index = <<>> THEN NewStore
  ELSE LoadPairs(index, 2, [NewStore EXCEPT !.sn = index[1]])

St == [b |-> blob, files |-> blobFiles, threw |-> FALSE]

\* What the caller holds after a call on the keys: the data put last
RECURSIVE Remember(_, _, _)
Remember(stored, keys, data) ==
  IF keys = <<>> THEN stored ELSE Remember(With(stored, Head(keys), data), Tail(keys), data)
RECURSIVE Forget(_, _)
Forget(stored, keys) ==
  IF keys = <<>> THEN stored ELSE Forget(Without(stored, Head(keys)), Tail(keys))

\* putMany(data, keys) / put(data, key)
PutMany(data, keys) ==
  /\ blob.sn < MaxSeq
  /\ LET r == putMany(St, data, keys)
     IN /\ blob' = r.b
        /\ blobFiles' = r.files
  /\ blobArmed' = TRUE
  /\ blobHist' = [blobHist EXCEPT !.call = "put", !.threw = FALSE,
                                  !.stored = Remember(@, keys, data)]
  /\ UNCHANGED <<otherVars, afis, lengthSortedPaths, indexKeyLookup, keyVars, metaVars, blobIndex>>

\* delete(key | keys)
Delete(keys) ==
  /\ blob.sn < MaxSeq
  /\ LET r == del(St, keys)
     IN /\ blob' = r.b
        /\ blobFiles' = r.files
        /\ blobArmed' = (blobArmed \/ ~r.threw)
        /\ blobHist' =
             [call |-> "delete", threw |-> r.threw,
              stored |-> Forget(blobHist.stored, keys),
              orphaned |-> blobHist.orphaned \cup
                 { f \in DOMAIN blobFiles : KeysOf(blob, f) # {} /\ KeysOf(r.b, f) = {} },
              removed |-> blobHist.removed \cup (DOMAIN blobFiles \ DOMAIN r.files)]
  /\ UNCHANGED <<otherVars, afis, lengthSortedPaths, indexKeyLookup, keyVars, metaVars, blobIndex>>

\* clear(): the loop, then saveIndexInTheFuture.trigger() writes the index
Clear ==
  /\ blob.sn < MaxSeq
  /\ LET r == clear(St)
     IN /\ blob' = r.b
        /\ blobFiles' = r.files
        /\ blobIndex' = IF r.threw THEN blobIndex ELSE IndexText(r.b)
        /\ blobArmed' = (blobArmed /\ r.threw)
        /\ blobHist' = [blobHist EXCEPT !.call = "clear", !.threw = r.threw, !.stored = <<>>]
  /\ UNCHANGED <<otherVars, afis, lengthSortedPaths, indexKeyLookup, keyVars, metaVars>>

\* The 250 ms of saveIndexInTheFuture have passed: the index is written
SaveIndex ==
  /\ blobArmed
  /\ blobIndex' = IndexText(blob)
  /\ blobArmed' = FALSE
  /\ UNCHANGED <<otherVars, afis, lengthSortedPaths, indexKeyLookup, keyVars, metaVars, blob, blobFiles, blobHist>>

\* flush() while a save is pending: the index is written now
Flush ==
  /\ blobArmed
  /\ blobIndex' = IndexText(blob)
  /\ blobArmed' = FALSE
  /\ blobHist' = [blobHist EXCEPT !.call = "flush", !.threw = FALSE]
  /\ UNCHANGED <<otherVars, afis, lengthSortedPaths, indexKeyLookup, keyVars, metaVars, blob, blobFiles>>

\* MakeBlobStore on the same directory once the index has been saved; the
\* caller goes on with the new store
Reopen ==
  /\ ~blobArmed
  /\ blob' = MakeBlobStore(blobIndex)
  /\ blobHist' = [blobHist EXCEPT !.call = "open", !.threw = FALSE]
  /\ UNCHANGED <<otherVars, afis, lengthSortedPaths, indexKeyLookup, keyVars, metaVars, blobFiles, blobIndex, blobArmed>>

NextBlob ==
  \/ \E data \in BlobData, keys \in KeyLists : PutMany(data, keys)
  \/ \E keys \in KeyLists : Delete(keys)
  \/ Clear
  \/ SaveIndex
  \/ Flush
  \/ Reopen

SpecBlob == Init /\ [][NextBlob]_vars

\* C14: over any sequence of put, putMany and delete, delete removes a payload
\* file exactly when it deletes the last key mapping to the file; after a
\* delete, get of a deleted key returns nothing and get of every other key
\* still returns what was put under it.
C14_PayloadRemovedWithLastKey ==
  /\ blobHist.removed = blobHist.orphaned
  /\ (blobHist.call = "delete" /\ ~blobHist.threw) =>
       \A k \in BlobKeys :
         blobGet(blob, blobFiles, k) =
           IF k \in DOMAIN blobHist.stored THEN blobHist.stored[k] ELSE NoData

C16_ClearEmptiesStore ==
  blobHist.call = "clear" =>
    /\ ~blobHist.threw
    /\ DOMAIN blobFiles = {}
    /\ blobIndex # <<>>
    /\ \A k \in BlobKeys : blobGet(blob, blobFiles, k) = NoData

\* ------------------------------------------------------ the metadata stores
\* A metadata record is a function from field names to values; a store keeps
\* its Map as the sequence of <<key, record>> entries in insertion order.
Mandatory == {"originalPath", "artist", "album", "track", "title"}

\* { ...a, ...b }
Merge(a, b) == [f \in DOMAIN a \cup DOMAIN b |-> IF f \in DOMAIN b THEN b[f] ELSE a[f]]

\* normalize(p) for a root-relative path: the path in upper case
normalize(rel) == [i \in DOMAIN rel |-> UpperWord(rel[i])]

\* An array of strings held by a metadata field is written as one string, "[x,y]"
ArrayTexts == {"[x]", "[x,y]", "[y,x]"}
\* The fields whose value can be an array: artist, moreArtists, variations
ArrayFields == {"artist", "moreArtists", "variations"}
Elements(v) == IF v = "[x]" THEN {"x"} ELSE {"x", "y"}
\* Type.isArrayOfString(aa[k])
isArrayOfString(f, v) == f \in ArrayFields /\ v \in ArrayTexts
\* Operations.ArraySetEqual(a, b)
ArraySetEqual(v, w) == Elements(v) = Elements(w)

\* minMetadataEqual(a, b)
minMetadataEqual(a, b) ==
  /\ DOMAIN a = DOMAIN b
  /\ \A f \in DOMAIN a :
        \/ a[f] = b[f]
        \/ isArrayOfString(f, a[f]) /\ isArrayOfString(f, b[f]) /\ ArraySetEqual(a[f], b[f])

\* IsFullMetadata(obj)
IsFullMetadata(md) == Mandatory \subseteq DOMAIN md

\* store.get(filepath)
mdsGet(st, rel) ==
  IF MapHas(st.store, normalize(rel)) THEN MapGet(st.store, normalize(rel)) ELSE NoMd

\* store.set(filepath, md), with the save() it ends on
mdsSet(st, rel, md) ==
  LET curMd == mdsGet(st, normalize(rel))
  IN IF DOMAIN curMd # {} /\ minMetadataEqual(curMd, md) THEN st
     ELSE [st EXCEPT !.dirty = TRUE,
                     !.store = MapSet(@, normalize(rel), Merge(curMd, md)),
                     !.stopTrying = @ \ {normalize(rel)},
                     !.armed = TRUE,
                     !.unsaved = TRUE]

\* store.overwrite(filepath, md), with the save() it ends on
mdsOverwrite(st, rel, md) ==
  LET curMd == mdsGet(st, normalize(rel))
  IN IF DOMAIN curMd # {} /\ minMetadataEqual(curMd, md) THEN st
     ELSE [st EXCEPT !.dirty = TRUE,
                     !.store = MapSet(@, normalize(rel), md),
                     !.stopTrying = @ \ {normalize(rel)},
                     !.armed = TRUE,
                     !.unsaved = TRUE]

\* store.fail(filepath)
mdsFail(st, rel) ==
  IF normalize(rel) \in st.stopTrying THEN st
  ELSE [st EXCEPT !.dirty = TRUE, !.stopTrying = @ \cup {normalize(rel)}, !.unsaved = TRUE]

\* store.shouldTry(filepath)
mdsShouldTry(st, rel) == normalize(rel) \notin st.stopTrying

\* store.save()
mdsSave(st) == IF st.dirty THEN [st EXCEPT !.armed = TRUE] ELSE st

\* The value saverDelay writes: { store: [...store.values()], fails: [...stopTrying] }
RECURSIVE Values(_)
Values(m) == IF m = <<>> THEN <<>> ELSE <<Head(m)[2]>> \o Values(Tail(m))
valueToSave(st) == [store |-> Values(st.store), fails |-> st.stopTrying, none |-> FALSE]

\* The forEach of load(): store.set(val.originalPath, val)
RECURSIVE Restore(_, _)
Restore(vals, m) ==
  IF vals = <<>> THEN m
  ELSE Restore(Tail(vals), MapSet(m, Head(vals).originalPath, Head(vals)))

\* load() of a new store, on the item found in the persist
mdsLoad(item) ==
  IF item.none THEN EmptyStore
  ELSE [store |-> Restore(item.store, <<>>), stopTrying |-> item.fails,
        dirty |-> FALSE, armed |-> FALSE, unsaved |-> FALSE]

\* The files of the AFI on LocA: the name of m1 fits the path pattern, m2 has
\* readable tags only, m3 has neither
m1 == <<"a", "d", "f1">>
m2 == <<"a", "d", "f2">>
m3 == <<"a", "e", "f3">>
MetaPaths == {m1, m2, m3}

\* Metadata.FromPath(relPath)
FromPath(rel) ==
  IF rel = <<"d", "f1">> THEN [artist |-> "x", album |-> "t", track |-> 1, title |-> "s"]
  ELSE NoMd

\* Metadata.FromFileAsync(fullPath)
FromFileAsync(full) ==
  IF full = m2 THEN [artist |-> "y", album |-> "u", track |-> 2, title |-> "s"]
  ELSE NoMd

\* Metadata.FullFromObj(fullPath, obj)
FullFromObj(full, obj) ==
  IF DOMAIN obj = {} THEN NoMd ELSE Merge(obj, [originalPath |-> full])

\* The second half of getMetadataForSong: the tags of the file
FromTags(m, full, rel, mdOverride) ==
  LET fullMd == FullFromObj(full, FromFileAsync(full))
      overridden == Merge(fullMd, mdOverride)
  IN IF ~IsFullMetadata(fullMd)
     THEN [m |-> [m EXCEPT !["metadataCache"] = mdsFail(@, rel)], res |-> NoMd,
           parsed |-> TRUE]
     ELSE [m |-> [m EXCEPT !["metadataCache"] = mdsSave(mdsSet(@, rel, overridden))],
           res |-> overridden, parsed |-> TRUE]

\* afi.getMetadataForSong(pathName) over the two stores: the stores after the
\* call, the metadata returned (NoMd for nothing) and whether
\* Metadata.FromFileAsync was called
metadataForSong(m, full) ==
  LET rel == RelPath(LocA, full)
      mdOverride == mdsGet(m["metadataOverride"], rel)
      littlemd == FromPath(rel)
      md == Merge(Merge(FullFromObj(full, littlemd), mdOverride), [originalPath |-> full])
  IN IF ~mdsShouldTry(m["metadataCache"], rel) THEN [m |-> m, res |-> NoMd, parsed |-> FALSE]
     ELSE IF DOMAIN littlemd # {} /\ IsFullMetadata(md)
     THEN [m |-> m, res |-> md, parsed |-> FALSE]
     ELSE FromTags(m, full, rel, mdOverride)

\* afi.updateMetadata(newMetadata)
updateMetadata(m, newMetadata) ==
  LET relName == RelPath(LocA, newMetadata.originalPath)
  IN [m EXCEPT !["metadataOverride"] =
        mdsSet(@, relName, Merge(newMetadata, [originalPath |-> relName]))]

\* The fields a caller overrides
Overrides ==
  { [title |-> "n", track |-> 3],
    [artist |-> "z", album |-> "u", track |-> 3, title |-> "n"] }

\* Number of updateMetadata calls in one behaviour
MaxUpdates == 2

nonMetaVars == <<otherVars, afis, lengthSortedPaths, indexKeyLookup, keyVars, blobVars>>

\* afi.updateMetadata({ originalPath: p, ...fields })
UpdateMetadata(full, fields) ==
  /\ updates < MaxUpdates
  /\ updates' = updates + 1
  /\ mds' = updateMetadata(mds, Merge(fields, [originalPath |-> full]))
  /\ ovHist' = With(ovHist, full,
                    Merge(IF full \in DOMAIN ovHist THEN ovHist[full] ELSE NoMd, fields))
  /\ answer' = NoCall
  /\ UNCHANGED <<nonMetaVars, mdItems, parses>>

\* afi.getMetadataForSong(p)
GetMetadataForSong(full) ==
  /\ LET r == metadataForSong(mds, full)
     IN /\ mds' = r.m
        /\ answer' = [path |-> full, res |-> r.res]
        /\ parses' = [failed |-> parses.failed \cup
                                   (IF r.parsed /\ DOMAIN r.res = {} THEN {full} ELSE {}),
                      again |-> parses.again \cup
                                   (IF r.parsed /\ full \in parses.failed THEN {full} ELSE {})]
  /\ UNCHANGED <<nonMetaVars, mdItems, ovHist, updates>>

\* The 250 ms of a store's saverDelay have passed: the store is written
SaverFire(n) ==
  /\ mds[n].armed
  /\ mdItems' = [mdItems EXCEPT ![n] = valueToSave(mds[n])]
  /\ mds' = [mds EXCEPT ![n].dirty = FALSE, ![n].armed = FALSE, ![n].unsaved = FALSE]
  /\ UNCHANGED <<nonMetaVars, answer, ovHist, parses, updates>>

\* The AFI is destroyed and made again on the same root, with no save of a
\* store pending: GetMetadataStore loads both stores
Reload ==
  /\ \A n \in StoreNames : ~mds[n].armed
  /\ mds' = [n \in StoreNames |-> mdsLoad(mdItems[n])]
  /\ answer' = NoCall
  /\ UNCHANGED <<nonMetaVars, mdItems, ovHist, parses, updates>>

NextMeta ==
  \/ \E full \in MetaPaths, fields \in Overrides : UpdateMetadata(full, fields)
  \/ \E full \in MetaPaths : GetMetadataForSong(full)
  \/ \E n \in StoreNames : SaverFire(n)
  \/ Reload

SpecMeta == Init /\ [][NextMeta]_vars

\* The same, where a pending save is written in the end
SpecMetaFair ==
  /\ Init
  /\ [][NextMeta]_vars
  /\ WF_vars(SaverFire("metadataCache"))
  /\ WF_vars(SaverFire("metadataOverride"))

\* What the path pattern or, failing it, the tag parser yields for a file
BaseOf(full) ==
  IF DOMAIN FromPath(RelPath(LocA, full)) # {} THEN FromPath(RelPath(LocA, full))
  ELSE FromFileAsync(full)

\* Two metadata values are the same: both nothing, or the same fields and values
SameMd(a, b) == DOMAIN a = DOMAIN b /\ \A f \in DOMAIN a : a[f] = b[f]

\* The override of a file and what the parsers yield for it hold, between
\* them, every field a song must have
Describable(full) ==
  /\ full \in DOMAIN ovHist
  /\ Mandatory \ {"originalPath"} \subseteq DOMAIN ovHist[full] \cup DOMAIN BaseOf(full)

\* C19: after updateMetadata({originalPath: p, ...fields}), getMetadataForSong(p)
\* returns the override's value for every field the override holds for p, and
\* the value of the path pattern or the tag parser for every other field.
C19_OverrideWins ==
  Describable(answer.path) =>
    /\ DOMAIN answer.res # {}
    /\ \A f \in DOMAIN ovHist[answer.path] :
         f \in DOMAIN answer.res /\ answer.res[f] = ovHist[answer.path][f]
    /\ \A f \in DOMAIN BaseOf(answer.path) \ DOMAIN ovHist[answer.path] :
         f \in DOMAIN answer.res /\ answer.res[f] = BaseOf(answer.path)[f]

\* C20: for every path of a metadata store, saving the store and loading what
\* was saved into a new store on the same persist and root gives the same
\* get(p) and the same shouldTry(p).
C20_SaveLoadRoundTrip ==
  \A n \in StoreNames, full \in MetaPaths :
    /\ SameMd(mdsGet(mdsLoad(valueToSave(mds[n])), RelPath(LocA, full)),
              mdsGet(mds[n], RelPath(LocA, full)))
    /\ mdsShouldTry(mdsLoad(valueToSave(mds[n])), RelPath(LocA, full))
         = mdsShouldTry(mds[n], RelPath(LocA, full))

\* C17: every change that marks a metadata store dirty (set, overwrite or fail)
\* is in the end written to the persist, with no further call on the store.
C17_ChangeEventuallyWritten ==
  \A n \in StoreNames : mds[n].unsaved ~> (mdItems[n] = valueToSave(mds[n]))

\* C18: once destroy() of an AFI has completed, no debounced save of that AFI
\* is still pending (its song-key map has been written) and the AFI is no
\* longer in the registry.
C18_DestroyFlushesAndDeregisters ==
  \A id \in 1..Len(afis) :
    ~Contains(lengthSortedPaths, id) =>
      /\ id \notin armed
      /\ \A h \in DOMAIN indexKeyLookup : indexKeyLookup[h] # id

\* C21: once getMetadataForSong has failed to obtain metadata for a path, the
\* path is in the do-not-retry set, and every later getMetadataForSong for it
\* returns nothing without calling the tag parser again.
C21_FailedPathNeverRetried ==
  /\ \A full \in parses.failed : ~mdsShouldTry(mds["metadataCache"], RelPath(LocA, full))
  /\ parses.again = {}
  /\ answer.path \in parses.failed => DOMAIN answer.res = {}

\* ------------------------------------------------- save() and load()
\* The value save() pickles: the five maps and, for each location of
\* dbAudioIndices, the location and afi.getHashForIndex()
Flattened(d, indices) ==
  [none |-> FALSE, dbSongs |-> d.songs, dbAlbums |-> d.albums, dbArtists |-> d.artists,
   albumTitleIndex |-> d.titleIdx, artistNameIndex |-> d.nameIdx,
   indices |-> [i \in 1..Len(indices) |->
                  [location |-> indices[i].loc, hash |-> d.afis[indices[i].index].hashStr]]]

\* The Promise.all of load(): MakeAudioFileIndex(location, hash) for each saved
\* index, in order; the registry after it and the [location, afi] entries
RECURSIVE LoadIndices(_, _, _, _)
LoadIndices(d, idx, dk, entries) ==
  IF idx = <<>> THEN [d |-> d, entries |-> entries]
  ELSE LoadIndices(MakeAudioFileIndex(d, Head(idx).location, Head(idx).hash, dk).d,
                   Tail(idx), dk,
                   Append(entries, [loc |-> Head(idx).location, index |-> Len(d.afis) + 1]))

\* load(): the database, its dbAudioIndices and the value returned
load(d, indices, flattened, dk) ==
  IF flattened.none THEN [d |-> d, indices |-> indices, ret |-> FALSE]
  ELSE LET made == LoadIndices(d, flattened.indices, dk, <<>>)
       IN [d |-> [made.d EXCEPT !.songs = flattened.dbSongs,
                                !.artists = flattened.dbArtists,
                                !.albums = flattened.dbAlbums,
                                !.titleIdx = flattened.albumTitleIndex,
                                !.nameIdx = flattened.artistNameIndex],
           indices |-> made.entries, ret |-> TRUE]

\* save()
Save ==
  /\ dbItem' = Flattened(D, dbAudioIndices)
  /\ UNCHANGED <<dbVars, dbAudioIndices, keywordIndex, disk, refreshVars, results, chain,
                 plain, adds, diskOps, keyVars, blobVars, metaVars, picVars, nameVars, scanVars, concVars, loaded>>

\* load()
Load ==
  /\ Len(afis) + Len(dbItem.indices) <= MaxAfis
  /\ LET r == load(D, dbAudioIndices, dbItem, disk)
     IN /\ Store(r.d)
        /\ dbAudioIndices' = r.indices
        /\ loaded' = [done |-> TRUE, ok |-> r.ret, found |-> dbItem,
                      left |-> Flattened(r.d, r.indices)]
  /\ results' = NoAnswer
  /\ chain' = NoChain
  /\ UNCHANGED <<keywordIndex, disk, refreshVars, plain, adds, diskOps, keyVars, blobVars,
                 metaVars, picVars, nameVars, scanVars, concVars, dbItem>>

\* The database with saves and loads between the calls of its song API
NextSave ==
  \/ AddFileLocation(LocA)
  \/ \E md \in SearchMetadata : AddOrUpdateSong(md)
  \/ \E key \in DOMAIN dbSongs : DelSongByKey(key)
  \/ Save
  \/ Load

SpecSave == Init /\ [][NextSave]_vars

\* The songs, albums, artists and the two name indices of a pickled database
Graph(f) ==
  [dbSongs |-> f.dbSongs, dbAlbums |-> f.dbAlbums, dbArtists |-> f.dbArtists,
   albumTitleIndex |-> f.albumTitleIndex, artistNameIndex |-> f.artistNameIndex]

\* C22: save() followed by load() on the same database returns true and
\* restores dbSongs, dbAlbums, dbArtists, albumTitleIndex, artistNameIndex and
\* the AFI roster to what was saved, whatever was added or deleted in between.
C22_LoadRestoresWhatWasSaved ==
  (loaded.done /\ ~loaded.found.none) =>
    /\ loaded.ok
    /\ Graph(loaded.left) = Graph(loaded.found)
    /\ loaded.left.indices = loaded.found.indices

\* ------------------------------------------------------------- pictures
\* GetIndexForKey(key): the AFI registered under key.substring(1, key.indexOf(':')),
\* 0 for none.  An album or artist key has no ':', so the index portion is
\* substring(1, -1), the key's first letter, which is no encoded hash.
GetIndexForKey(d, key) ==
  IF key[1] = "S" /\ key[2] \in DOMAIN d.lookup THEN d.lookup[key[2]] ELSE 0

\* What reading the cover of a file, or the image of its folder, yields
Cover(p) == IF p = p1 THEN "C" ELSE NoData

\* afi.setImageForSong(key, buf) with a song key: data.pictures.put(buf, key)
setImageForSong(pics, id, key, buf) == [pics EXCEPT ![id] = putMany(@, buf, <<key>>)]

\* album.songs.map((k) => afi.setImageForSong(k, buf))
RECURSIVE SetImages(_, _, _, _)
SetImages(pics, id, keys, buf) ==
  IF keys = <<>> THEN pics
  ELSE SetImages(setImageForSong(pics, id, Head(keys), buf), id, Tail(keys), buf)

\* setPicture(key, buf): the picture stores of the AFIs and the artistStore
setPicture(d, pics, artists, key, buf) ==
  LET afi == GetIndexForKey(d, key)
  IN IF afi = 0 THEN [pics |-> pics, artists |-> artists]
     ELSE IF key[1] = "S" THEN [pics |-> setImageForSong(pics, afi, key, buf), artists |-> artists]
     ELSE IF key[1] = "L"
     THEN [pics |-> IF key \in DOMAIN d.albums
                    THEN SetImages(pics, afi, d.albums[key].songs, buf) ELSE pics,
           artists |-> artists]
     ELSE [pics |-> pics,
           artists |-> IF key \in DOMAIN d.artists
                       THEN putMany(artists, buf, <<NormalizeText(d.artists[key].name)>>)
                       ELSE artists]

\* afi.getImageForSong(song.path): the key of the path, the blob store, then
\* the covers of the file system
getImageForSong(d, pics, id, path) ==
  LET mk == makeSongKey(d, id, path)
      maybe == blobGet(pics[id].b, pics[id].files, mk.key)
  IN [d |-> mk.d, res |-> IF maybe # NoData THEN maybe ELSE Cover(path)]

\* getPicture(key) for a song key
getSongPicture(d, pics, key) ==
  IF GetIndexForKey(d, key) # 0 /\ key \in DOMAIN d.songs
  THEN getImageForSong(d, pics, GetIndexForKey(d, key), d.songs[key].path)
  ELSE [d |-> d, res |-> NoData]

\* getPicture(key) for an album key: the first picture of its songs
RECURSIVE FirstPicture(_, _, _)
FirstPicture(d, pics, songs) ==
  IF songs = <<>> THEN [d |-> d, res |-> NoData]
  ELSE LET one == getSongPicture(d, pics, Head(songs))
       IN IF one.res # NoData THEN one ELSE FirstPicture(one.d, pics, Tail(songs))

\* getPicture(key)
getPicture(d, pics, artists, key) ==
  IF key[1] = "L"
  THEN IF key \in DOMAIN d.albums THEN FirstPicture(d, pics, d.albums[key].songs)
       ELSE [d |-> d, res |-> NoData]
  ELSE IF key[1] = "R"
  THEN [d |-> d,
        res |-> IF key \in DOMAIN d.artists
                THEN blobGet(artists.b, artists.files, NormalizeText(d.artists[key].name))
                ELSE NoData]
  ELSE getSongPicture(d, pics, key)

\* The keys of the songs, albums and artists of the database
MediaKeys == DOMAIN dbSongs \cup DOMAIN dbAlbums \cup DOMAIN dbArtists

\* Number of setPicture calls in one behaviour
MaxPics == 2

nonPicVars == <<dbAudioIndices, keywordIndex, disk, refreshVars, results, chain, plain, adds, diskOps, keyVars, blobVars, metaVars, saveVars, nameVars, scanVars, concVars>>

\* setSongPicture / setAlbumPicture / setArtistPicture (key, buf)
SetPicture(key, buf) ==
  /\ pic.sets < MaxPics
  /\ LET r == setPicture(D, pictures, artistStore, key, buf)
     IN /\ pictures' = r.pics
        /\ artistStore' = r.artists
  /\ pic' = [sets |-> pic.sets + 1, key |-> key, bytes |-> buf, adds |-> adds, afis |-> Len(afis),
             asked |-> FALSE, res |-> NoData]
  /\ UNCHANGED <<dbVars, nonPicVars>>

\* getSongPicture / getAlbumPicture / getArtistPicture (key)
GetPicture(key) ==
  /\ LET r == getPicture(D, pictures, artistStore, key)
     IN /\ Store(r.d)
        /\ pic' = [pic EXCEPT !.asked = (pic.sets > 0 /\ key = pic.key /\ adds = pic.adds
                                           /\ Len(afis) = pic.afis),
                              !.res = r.res]
  /\ UNCHANGED <<nonPicVars, pictures, artistStore>>

\* The database with pictures set and read between the calls of its song API
NextPic ==
  \/ AddFileLocation(LocA)
  \/ \E md \in SearchMetadata : AddOrUpdateSong(md)
  \/ \E key \in MediaKeys, buf \in BlobData : SetPicture(key, buf)
  \/ \E key \in MediaKeys : GetPicture(key)

SpecPic == Init /\ [][NextPic]_vars

\* C23: for every existing song, album or artist key k, setSongPicture /
\* setAlbumPicture / setArtistPicture (k, bytes) followed by the matching
\* getSongPicture / getAlbumPicture / getArtistPicture (k) returns exactly bytes.
C23_PictureReadBack == pic.asked => pic.res = pic.bytes

\* C24: in every reachable state, every album whose vatype is not empty ('va'
\* or 'ost') has an empty primaryArtists list.
C24_VaAlbumsHaveNoPrimaryArtists ==
  \A k \in DOMAIN dbAlbums : dbAlbums[k].vatype # "" => dbAlbums[k].primaryArtists = <<>>

\* An album made for a 'va' or 'ost' song holds a song, and an album that took
\* a second song was turned into a 'va' album
C24_Witness ==
  /\ \E k \in DOMAIN dbAlbums : dbAlbums[k].vatype = "ost" /\ Len(dbAlbums[k].songs) >= 1
  /\ \E k \in DOMAIN dbAlbums : dbAlbums[k].vatype = "va" /\ Len(dbAlbums[k].songs) >= 2

\* ---------------------------------------------------- canonical file names
\* Largest track number on a disk, and largest disk number, of the songs named
MaxTrack == 99
MaxDisk == 2
\* The disk names an album may hold
DiskNameLists == {<<>>, <<"">>, <<"d1">>, <<"d1", "">>, <<"", "d2">>}

\* Math.round(x / 100) for a track number
RoundHundredth(track) == (track + 50) \div 100

\* getDiskPiece(album, song): disk 0 stands for '/', otherwise the piece is
\* '/Disk <disk>/' or, with a name, '/Disk <disk>- <name>/'
getDiskPiece(diskNames, track) ==
  LET diskNum == RoundHundredth(track)
  IN IF track < 99 THEN [disk |-> 0, name |-> ""]
     ELSE IF Len(diskNames) >= diskNum /\ diskNames[diskNum] # ""
     THEN [disk |-> diskNum, name |-> diskNames[diskNum]]
     ELSE [disk |-> diskNum, name |-> ""]

\* trackStr(track): the digits written
trackStr(track) ==
  LET num == track % 100
  IN IF num < 10 THEN <<0, num>> ELSE <<num \div 10, num % 10>>

\* getCanonicalFileName(key), called once, for a song that addOrUpdateSong
\* stored with md.track = onDisk and md.disk = diskNum, on an album with these
\* disk names
GetCanonicalFileName(onDisk, diskNum, diskNames) ==
  /\ ~canon.asked
  /\ canon' = [asked |-> TRUE, onDisk |-> onDisk, disk |-> diskNum,
               track |-> SongTrack(onDisk, diskNum), diskNames |-> diskNames,
               piece |-> getDiskPiece(diskNames, SongTrack(onDisk, diskNum)),
               trackStr |-> trackStr(SongTrack(onDisk, diskNum))]
  /\ UNCHANGED <<dbVars, dbAudioIndices, keywordIndex, disk, refreshVars, results, chain,
                 plain, adds, diskOps, keyVars, blobVars, metaVars, saveVars, picVars, scanVars, concVars>>

NextName ==
  \E onDisk \in 1..MaxTrack, diskNum \in {NoDisk} \cup 0..MaxDisk, diskNames \in DiskNameLists :
    GetCanonicalFileName(onDisk, diskNum, diskNames)

SpecName == Init /\ [][NextName]_vars

\* C25: a song's track is trackOnDisk + diskNum*100, and for every track of at
\* least 100 getCanonicalFileName writes the piece '/Disk N/' (or '/Disk N-
\* <diskName>/') with N = floor(track/100), and the track number as track mod
\* 100 in two digits.
C25_DiskPieceAndTrack ==
  canon.asked =>
    /\ canon.track = canon.onDisk + (IF canon.disk = NoDisk THEN 0 ELSE canon.disk) * 100
    /\ canon.trackStr = <<(canon.track % 100) \div 10, (canon.track % 100) % 10>>
    /\ canon.track >= 100 => canon.piece.disk = canon.track \div 100

\* --------------------------------------------------------- disk names
\* Songs of one album in one directory, on no disk or on disk 1 or 2, with no
\* disk name or one of two
DiskMetadata ==
  { MD(p, <<X>>, <<>>, T, 0, "", dn[1], dn[2], T) :
      p \in {p1, p2},
      dn \in {<<NoDisk, "">>} \cup ({1, 2} \X {"", "n", "m"}) }

NextDisk ==
  \/ AddFileLocation(LocA)
  \/ \E md \in DiskMetadata : AddOrUpdateSong(md)

SpecDisk == Init /\ [][NextDisk]_vars

\* The disk names of an album before a call, none for an album not yet made
OldDiskNames(k) == IF k \in DOMAIN dbAlbums THEN dbAlbums[k].diskNames ELSE <<>>

\* The call added a song to album k
Joined(k) ==
  /\ k \in DOMAIN dbAlbums'
  /\ k \notin DOMAIN dbAlbums \/ dbAlbums'[k].songs # dbAlbums[k].songs

\* One call keeps the entries and the non-empty names of every album, and
\* addOrUpdateSong(md) with a disk number leaves the song's album with at least
\* that many entries and with md.diskName where the disk had no name
DiskNamesStep ==
  /\ \A k \in DOMAIN dbAlbums \cap DOMAIN dbAlbums' :
        /\ Len(dbAlbums'[k].diskNames) >= Len(dbAlbums[k].diskNames)
        /\ \A i \in 1..Len(dbAlbums[k].diskNames) :
              dbAlbums[k].diskNames[i] # "" => dbAlbums'[k].diskNames[i] = dbAlbums[k].diskNames[i]
  /\ \A md \in DiskMetadata :
        (AddOrUpdateSong(md) /\ md.disk # NoDisk) =>
          \A k \in { a \in DOMAIN dbAlbums' : Joined(a) } :
            /\ Len(dbAlbums'[k].diskNames) >= md.disk
            /\ (md.diskName # "" /\ (Len(OldDiskNames(k)) < md.disk \/ OldDiskNames(k)[md.disk] = ""))
                 => dbAlbums'[k].diskNames[md.disk] = md.diskName

AlbumChoice(md) ==
  LET pa == GetArtists(D, md.artist)
      sa == GetArtists(pa.d, md.moreArtists)
      names == SharedNames(sa.d, md.album)
      at == FirstCandidate(sa.d, names, md.album, md.year, pa.keys, md.vaType,
                           DirName(md.originalPath))
  IN IF at = 0
     THEN [kind |-> "new", key |-> <<>>, songs |-> {}, artists |-> pa.keys,
           secondary |-> sa.keys, common |-> {}]
     ELSE [kind |-> Candidate(sa.d, names[at], md.album, md.year, pa.keys, md.vaType,
                              DirName(md.originalPath)),
           key |-> names[at],
           songs |-> Range(sa.d.albums[names[at]].songs) \cap DOMAIN sa.d.songs,
           artists |-> pa.keys, secondary |-> sa.keys,
           common |-> Range(sa.d.albums[names[at]].primaryArtists) \cap Range(pa.keys)]

\* The key of the song that addOrUpdateSong(md) sets, none when getSongKey throws
Incoming(md) ==
  LET r == addOrUpdateSong(D, md) IN IF r.threw THEN {} ELSE {r.key}

\* addOrUpdateSong(md) demoted: the album and all its songs have the common
\* artists as primary artists, and what left a primary list is secondary
DemotedStep(md) ==
  LET c == AlbumChoice(md)
  IN /\ c.key \in DOMAIN dbAlbums'
     /\ Range(dbAlbums'[c.key].primaryArtists) = c.common
     /\ \A k \in Incoming(md) :
           /\ Range(dbSongs'[k].artistIds) = c.common
           /\ Range(c.artists) \ c.common \subseteq Range(dbSongs'[k].secondaryIds)
     /\ \A k \in (c.songs \cap DOMAIN dbSongs') \ Incoming(md) :
           /\ Range(dbSongs'[k].artistIds) = c.common
           /\ Range(dbSongs[k].artistIds) \ c.common \subseteq Range(dbSongs'[k].secondaryIds)

DemotionStep ==
  \A md \in Metadata :
    (AddOrUpdateSong(md) /\ AlbumChoice(md).kind = "demote") => DemotedStep(md)

\* C27: when getOrNewAlbum demotes (candidate of the same title and year in the
\* same directory, primary artists different from the incoming song's but with
\* artists in common), afterwards the album's primaryArtists is the
\* intersection, the incoming song and every song already on the album have the
\* intersection as primary artists, and every artist removed from a song's
\* primary list is in its secondary list; also after the creating song was deleted.
C27_DemotionLeavesIntersection == [][DemotionStep]_vars

\* Songs of one title in two directories, by different artists and VA types
VaMetadata ==
  { MD(p1, <<X>>, <<>>, T, 0, "", NoDisk, "", T),
    MD(p1, <<X, Y>>, <<>>, T, 0, "", NoDisk, "", T),
    MD(p2, <<Y>>, <<>>, T, 0, "", NoDisk, "", T),
    MD(p2, <<Y>>, <<>>, T, 0, "va", 2, "", T),
    MD(p3, <<X>>, <<>>, T, 0, "", NoDisk, "", T),
    MD(p3, <<Z>>, <<>>, T, 0, "ost", NoDisk, "", U) }

NextVa ==
  \/ AddFileLocation(LocA)
  \/ \E md \in VaMetadata : AddOrUpdateSong(md)
  \/ \E key \in DOMAIN dbSongs : DelSongByKey(key)

SpecVa == Init /\ [][NextVa]_vars

\* Album k, before addOrUpdateSong(md), has the title and the year of md, another
\* VA type, and no primary artist among the primary artists of md
Disjoint(md, k) ==
  /\ k \in DOMAIN dbAlbums
  /\ normalizeName(dbAlbums[k].title) = normalizeName(md.album)
  /\ dbAlbums[k].year = md.year
  /\ dbAlbums[k].vatype # md.vaType
  /\ Range(dbAlbums[k].primaryArtists) \cap Range(AlbumChoice(md).artists) = {}
  /\ dbAlbums[k].songs # <<>>
  /\ dbAlbums[k].songs[1] \in DOMAIN dbSongs

\* The first song of album k lies in the directory of md's file
SameDir(md, k) == DirName(dbSongs[dbAlbums[k].songs[1]].path) = DirName(md.originalPath)

\* The call attached the incoming song to album k as it was
Attached(md, k) ==
  /\ k \in DOMAIN dbAlbums'
  /\ \E s \in Incoming(md) :
        /\ dbAlbums'[k].songs = Append(dbAlbums[k].songs, s)
        /\ dbSongs'[s].albumId = k

CollapseStep ==
  \A md \in VaMetadata :
    (AddOrUpdateSong(md) /\ Incoming(md) # {}) =>
      /\ LET k == AlbumChoice(md).key
         IN (Disjoint(md, k) /\ SameDir(md, k)) =>
              /\ Attached(md, k)
              /\ DOMAIN dbAlbums' = DOMAIN dbAlbums
              /\ dbAlbums'[k].vatype = "va"
              /\ dbAlbums'[k].primaryArtists = <<>>
      /\ \A k \in Range(SharedNames(D, md.album)) :
           (Disjoint(md, k) /\ ~SameDir(md, k)) => ~Attached(md, k)

FileNames == {"a", "A", "b", "c"}
\* Number of files in a list
MaxFiles == 3
\* null
NoPath == "null"

\* a.toLocaleUpperCase()
UpperCase(p) ==
  CASE p = "a" -> "A"
    [] p = "b" -> "B"
    [] p = "c" -> "C"
    [] OTHER -> p

\* The position of an upper-case string in the order of < on strings
StringOrder(u) ==
  CASE u = "A" -> 1
    [] u = "B" -> 2
    [] u = "C" -> 3

\* pathCompare(a, b) of the file index, with its sign; a path is a non-empty string
pathCompareSign(a, b) ==
  IF a = NoPath THEN (IF b # NoPath THEN 1 ELSE 0)
  ELSE IF b = NoPath THEN -1
  ELSE (IF StringOrder(UpperCase(a)) > StringOrder(UpperCase(b)) THEN 1 ELSE 0)
       - (IF StringOrder(UpperCase(a)) < StringOrder(UpperCase(b)) THEN 1 ELSE 0)

\* The lists of distinct paths that list.sort(pathCompare) can give
SortedLists ==
  { l \in UNION { [1..n -> FileNames] : n \in 0..MaxFiles } :
      \A i, j \in 1..Len(l) : i < j => l[i] # l[j] /\ pathCompareSign(l[i], l[j]) <= 0 }

\* SortedArrayDiff(oldList, newList, delFn, addFn) is entered
SortedArrayDiff(oldList, newList) ==
  /\ ~diff.running /\ ~diff.done
  /\ diff' = [NoDiff EXCEPT !.running = TRUE, !.oldList = oldList, !.newList = newList]
  /\ UNCHANGED <<dbVars, dbAudioIndices, keywordIndex, disk, refreshVars, results, chain,
                 plain, adds, diskOps, keyVars, blobVars, metaVars, saveVars, picVars, nameVars, concVars>>

\* One pass of its for loop; the indices are those of the code (from 0)
DiffLoop ==
  /\ diff.running
  /\ diff.oldIndex < Len(diff.oldList) \/ diff.newIndex < Len(diff.newList)
  /\ diff.iters <= 2 * MaxFiles
  /\ LET oldItem == IF diff.oldIndex < Len(diff.oldList)
                    THEN diff.oldList[diff.oldIndex + 1] ELSE NoPath
         newItem == IF diff.newIndex < Len(diff.newList)
                    THEN diff.newList[diff.newIndex + 1] ELSE NoPath
         comp == pathCompareSign(oldItem, newItem)
     IN diff' =
          IF comp = 0
          THEN [diff EXCEPT !.oldIndex = @ + 1, !.newIndex = @ + 1, !.iters = @ + 1]
          ELSE IF comp < 0 /\ oldItem # NoPath
          THEN [diff EXCEPT !.calls = Append(@, <<"del", oldItem>>), !.oldIndex = @ + 1,
                            !.iters = @ + 1]
          ELSE IF comp > 0 /\ newItem # NoPath
          THEN [diff EXCEPT !.calls = Append(@, <<"add", newItem>>), !.newIndex = @ + 1,
                            !.iters = @ + 1]
          ELSE [diff EXCEPT !.iters = @ + 1]
  /\ UNCHANGED <<dbVars, dbAudioIndices, keywordIndex, disk, refreshVars, results, chain,
                 plain, adds, diskOps, keyVars, blobVars, metaVars, saveVars, picVars, nameVars, concVars>>

\* The loop condition fails: SortedArrayDiff returns
DiffReturn ==
  /\ diff.running
  /\ ~(diff.oldIndex < Len(diff.oldList) \/ diff.newIndex < Len(diff.newList))
  /\ diff' = [diff EXCEPT !.running = FALSE, !.done = TRUE]
  /\ UNCHANGED <<dbVars, dbAudioIndices, keywordIndex, disk, refreshVars, results, chain,
                 plain, adds, diskOps, keyVars, blobVars, metaVars, saveVars, picVars, nameVars, concVars>>

NextScan ==
  \/ \E oldList, newList \in SortedLists : SortedArrayDiff(oldList, newList)
  \/ DiffLoop
  \/ DiffReturn

SpecScan == Init /\ [][NextScan]_vars

\* A path is in a list, as the comparator sees it
InList(p, l) == \E i \in 1..Len(l) : pathCompareSign(l[i], p) = 0

\* The number of calls of a handler for a path
HandlerCalls(kind, p) ==
  Cardinality({ i \in 1..Len(diff.calls) : diff.calls[i] = <<kind, p>> })

\* One remove call per old path that is not in the new list, one add call per
\* new path that is not in the old list, no other call; in(p, l) says whether
\* path p counts as in list l
OncePerChange(in(_, _)) ==
  \A p \in FileNames :
    /\ HandlerCalls("del", p) =
         (IF p \in Range(diff.oldList) /\ ~in(p, diff.newList) THEN 1 ELSE 0)
    /\ HandlerCalls("add", p) =
         (IF p \in Range(diff.newList) /\ ~in(p, diff.oldList) THEN 1 ELSE 0)

SamePath(p, l) == p \in Range(l)

\* C29: with both lists sorted by the case-insensitive comparator, the diff
\* calls the remove handler exactly once for each old path that is not in the
\* new list, the add handler exactly once for each new path that is not in the
\* old list, no handler for a path in both, the calls are in sorted path order,
\* and the loop ends (each pass moves an index).  "In the list" is taken either
\* as the same string or as equal under the comparator, whichever the calls fit.
C29_DiffCallsOncePerChange ==
  /\ diff.iters <= Len(diff.oldList) + Len(diff.newList)
  /\ diff.done =>
       /\ OncePerChange(SamePath) \/ OncePerChange(InList)
       /\ \A i, j \in 1..Len(diff.calls) :
            i < j => pathCompareSign(diff.calls[i][2], diff.calls[j][2]) <= 0

\* ------------------------------------------------------ lookup by path
\* The registered AFI objects whose root is a prefix of the path
RootsOf(p) == { id \in Range(lengthSortedPaths) : IsPrefix(afis[id].location, p) }

\* C30: GetIndexForPath returns the AFI with the longest root among the
\* registered roots that are prefixes of the path, whatever the order of
\* registration; lengthSortedPaths is in length-descending order; the lookup
\* returns nothing when no root is a prefix.
C30_LongestRootWins ==
  /\ \A i, j \in 1..Len(lengthSortedPaths) :
        i < j => CharLen(afis[lengthSortedPaths[i]].location)
                   >= CharLen(afis[lengthSortedPaths[j]].location)
  /\ \A p \in Range(AllPaths) :
        IF RootsOf(p) = {} THEN GetIndexForPath(D, p) = 0
        ELSE /\ GetIndexForPath(D, p) \in RootsOf(p)
             /\ \A id \in RootsOf(p) :
                   CharLen(afis[GetIndexForPath(D, p)].location) >= CharLen(afis[id].location)

\* ------------------------------------------------------ dead hash slots
\* C31: the encoded hash slot of a deregistered AFI is never given to another
\* AFI: an AFI registered later with the same fragment hash gets another
\* prefix, and GetIndexForKey of a key issued by the old AFI never returns
\* another AFI.
C31_DeadSlotNeverReused ==
  /\ \A i, j \in 1..Len(afis) :
        (i < j /\ afis[i].fragmentHash = afis[j].fragmentHash)
          => afis[i].hashStr # afis[j].hashStr
  /\ \A a \in issued : GetIndexForKey(D, a.key) \in {0, a.id}

\* ------------------------------------------------- MetadataStore.set alone
\* A metadata store called directly: set and fail on two paths, the save
\* written when its delay has passed.
SetPaths == {<<"d", "f1">>, <<"d", "F1">>, <<"d", "f2">>}
SetMetadata ==
  { [originalPath |-> <<"d", "f1">>, title |-> t] : t \in {"s", "n"} }
  \cup { [originalPath |-> <<"d", "f1">>, title |-> "s", moreArtists |-> v] : v \in ArrayTexts }
  \cup { [originalPath |-> <<"d", "f1">>, title |-> "s", artist |-> v] :
           v \in ArrayTexts \cup {"x"} }
\* Number of set and fail calls in one behaviour
MaxSets == 3

\* store.set(filepath, md) on the cache store
StoreSet(rel, md) ==
  /\ updates < MaxSets
  /\ updates' = updates + 1
  /\ mds' = [mds EXCEPT !["metadataCache"] = mdsSet(@, rel, md)]
  /\ UNCHANGED <<nonMetaVars, mdItems, answer, ovHist, parses>>

\* store.fail(filepath) on the cache store
StoreFail(rel) ==
  /\ updates < MaxSets
  /\ updates' = updates + 1
  /\ mds' = [mds EXCEPT !["metadataCache"] = mdsFail(@, rel)]
  /\ UNCHANGED <<nonMetaVars, mdItems, answer, ovHist, parses>>

NextStore ==
  \/ \E rel \in SetPaths, md \in SetMetadata : StoreSet(rel, md)
  \/ \E rel \in SetPaths : StoreFail(rel)
  \/ SaverFire("metadataCache")

SpecStore == Init /\ [][NextStore]_vars

\* The stored value is semantically equal to md: the same fields, moreArtists
\* and variations equal as sets, every other field equal by value
SemanticallyEqual(cur, md) ==
  /\ DOMAIN cur = DOMAIN md
  /\ \A f \in DOMAIN cur :
        IF f \in {"moreArtists", "variations"} THEN Elements(cur[f]) = Elements(md[f])
        ELSE cur[f] = md[f]

SetStep ==
  \A rel \in SetPaths, md \in SetMetadata :
    StoreSet(rel, md) =>
      LET st == mds["metadataCache"]
          after == mds'["metadataCache"]
          cur == mdsGet(st, rel)
      IN IF DOMAIN cur # {} /\ SemanticallyEqual(cur, md)
         THEN after = st
         ELSE /\ mdsGet(after, rel) = Merge(cur, md)
              /\ after.dirty
              /\ after.armed
              /\ normalize(rel) \notin after.stopTrying

\* C32: set(p, md) is a no-op when the stored value for p is semantically equal
\* to md (the two array-valued fields as sets, every other field by value): the
\* entry, the dirty flag and the do-not-retry set are unchanged and no save is
\* scheduled; any other set stores the merged entry, marks the store dirty and
\* takes p out of the do-not-retry set.
C32_SetIsNoOpOnEqual == [][SetStep]_vars

\* ------------------------------------------------------- one reference each
\* The number of places of a list that hold a key
Occurrences(list, key) == Cardinality({ i \in 1..Len(list) : list[i] = key })

\* C33: each song key occurs at most once in its album's songs list and at most
\* once in each artist's songs list; after a second addOrUpdateSong for a path
\* the song has no second reference and none from the old album or old artists.
C33_OneReferencePerSong ==
  \A k \in DOMAIN dbSongs :
    /\ \A a \in DOMAIN dbAlbums :
          Occurrences(dbAlbums[a].songs, k) <= (IF dbSongs[k].albumId = a THEN 1 ELSE 0)
    /\ \A r \in DOMAIN dbArtists :
          Occurrences(dbArtists[r].songs, k)
            <= (IF r \in Range(dbSongs[k].artistIds) \cup Range(dbSongs[k].secondaryIds)
                THEN 1 ELSE 0)

\* ------------------------------------------------------- new album keys
\* The key getOrNewAlbum gives the album it creates for addOrUpdateSong(md)
MintedKey(md) ==
  AlbumKeyOf(newAlbumKey(AlbumSummary(md.album, AlbumChoice(md).artists, md.vaType, md.year)))

NewAlbumStep ==
  \A md \in VaMetadata :
    (AddOrUpdateSong(md) /\ AlbumChoice(md).kind = "new") =>
      MintedKey(md) \notin DOMAIN dbAlbums

\* C34: getOrNewAlbum never replaces an existing album: the key of an album it
\* creates is not yet a key of dbAlbums, also when an existing album's primary
\* artists or VA type changed after its key was minted.
C34_NewAlbumKeyIsFresh == [][NewAlbumStep]_vars

\* ------------------------------------------------- the key an AFI adds under
\* The AFI objects of the roster
Roster == { dbAudioIndices[i].index : i \in 1..Len(dbAudioIndices) }

\* C35: a song that an AFI of the roster adds (addSongToAfi during
\* addAudioFileIndex or refresh) is stored under the key the removal callback
\* of that AFI computes, so delSongFromAfi for the path finds and deletes it;
\* also with nested roots or a second AFI object for one root.
C35_AddedSongIsRemovable ==
  \A id \in Roster :
    \A p \in DOMAIN disk :
      IsPrefix(afis[id].location, p) =>
        delSongFromAfi(addSongToAfi(D, p, disk), p, id).ret

\* ------------------------------------------- a location added a second time
KnownLocationStep ==
  \A loc \in Locations :
    (AddFileLocation(loc) /\ IndexAt(loc) # 0) =>
      /\ UNCHANGED <<dbSongs, dbAlbums, dbArtists, albumTitleIndex, artistNameIndex>>
      /\ UNCHANGED <<dbAudioIndices, lengthSortedPaths, indexKeyLookup>>
      /\ \A p \in Range(AllPaths) :
            IsPrefix(loc, p) =>
              GetIndexForPath([paths |-> lengthSortedPaths', afis |-> afis'], p)
                = GetIndexForPath(D, p)

\* C36: addFileLocation(L) for a location that is already in the roster changes
\* nothing: the graph, the roster and the registry (path list and hash slots)
\* are as before, and GetIndexForPath returns the original AFI for every path
\* under L.
C36_KnownLocationChangesNothing == [][KnownLocationStep]_vars

\* ------------------------------------------------- the blob store's two maps
\* C37: in the blob store the reverse map is the exact inverse of the key map,
\* and a payload file is on disk if and only if some key maps to it; also after
\* put or putMany on a key that already had a payload.
C37_ReverseMapIsInverse ==
  /\ \A k \in BlobKeys :
        MapHas(blob.keyToPath, k) =>
          /\ MapGet(blob.keyToPath, k) \in DOMAIN blob.pathToKeys
          /\ Contains(blob.pathToKeys[MapGet(blob.keyToPath, k)], k)
  /\ \A f \in DOMAIN blob.pathToKeys :
        \A k \in Range(blob.pathToKeys[f]) :
          MapHas(blob.keyToPath, k) /\ MapGet(blob.keyToPath, k) = f
  /\ \A f \in 1..(MaxSeq + 1) :
        f \in DOMAIN blobFiles <=>
          \E k \in BlobKeys : MapHas(blob.keyToPath, k) /\ MapGet(blob.keyToPath, k) = f

\* ------------------------------------------ concurrent calls on a blob store
\* Number of putMany calls waiting at once
MaxInflight == 2

\* putMany up to its first await: filename = sn(), fs.writeFile is started
PutBegin(data, keys) ==
  /\ blob.sn < MaxSeq
  /\ Cardinality(inflight) < MaxInflight
  /\ blob' = [blob EXCEPT !.sn = @ + 1]
  /\ inflight' = inflight \cup {[filename |-> blob.sn + 1, data |-> data, keys |-> keys]}
  /\ UNCHANGED <<dbVars, dbAudioIndices, keywordIndex, disk, refreshVars, results, chain,
                 plain, adds, diskOps, keyVars, metaVars, saveVars, picVars, nameVars,
                 scanVars, blobFiles, blobIndex, blobArmed, blobHist>>

\* fs.writeFile has resolved: the file is there, the loop sets the keys and
\* saveIndex(filename) sets lastSeqNumSave and arms the save
PutEnd(c) ==
  /\ c \in inflight
  /\ inflight' = inflight \ {c}
  /\ blobFiles' = With(blobFiles, c.filename, c.data)
  /\ blob' = [SetKeys(blob, c.keys, c.filename) EXCEPT !.lastSeqNumSave = c.filename]
  /\ blobArmed' = TRUE
  /\ blobHist' = [blobHist EXCEPT !.call = "put", !.threw = FALSE,
                                  !.stored = Remember(@, c.keys, c.data)]
  /\ UNCHANGED <<dbVars, dbAudioIndices, keywordIndex, disk, refreshVars, results, chain,
                 plain, adds, diskOps, keyVars, metaVars, saveVars, picVars, nameVars,
                 scanVars, blobIndex>>

NextConc ==
  \/ \E data \in BlobData, keys \in KeyLists : PutBegin(data, keys)
  \/ \E filename \in 1..MaxSeq, data \in BlobData, keys \in KeyLists :
        PutEnd([filename |-> filename, data |-> data, keys |-> keys])
  \/ \E keys \in KeyLists : Delete(keys)
  \/ SaveIndex

SpecConc == Init /\ [][NextConc]_vars

\* The first line of a written index covers the payload files and the files
\* of the keys of a store opened on it
IndexWritten ==
  blobIndex' # blobIndex =>
    /\ \A f \in DOMAIN blobFiles' : blobIndex'[1] >= f
    /\ LET b == MakeBlobStore(blobIndex')
       IN \A i \in 1..Len(b.keyToPath) : b.keyToPath[i][2] # b.sn + 1

\* C38: under every interleaving of concurrent put, putMany and delete calls on
\* one blob store, the sequence number at the head of a written index is at
\* least the sequence number of every payload file created so far, and a store
\* opened on that index does not hand out the file name of a stored key.
C38_IndexHeadCoversPayloads == [][IndexWritten]_vars

\* ------------------------------------------- the path of returned metadata
\* C39: whenever getMetadataForSong(p) returns metadata, its originalPath is
\* the absolute path p of the song, from the path pattern or from the tag
\* parser, with or without an override for p.
C39_ReturnedPathIsAbsolute ==
  DOMAIN answer.res # {} => answer.res.originalPath = answer.path

\* ------------------------------------------------- getMetadata by key or path
\* The value whose ToU8 text holds the character '/': the hash of e/f3 under
\* the AFI on LocA
SlashDigit == 58
\* ToU8(n), by the one thing getMetadata looks at: "/" or another character
ToU8(n) == IF n = SlashDigit THEN "/" ELSE "w"
\* fullPathOrKey.indexOf('/') >= 0 for the text of a song key
KeyIsPath(key) == ToU8(key[2]) = "/" \/ ToU8(key[3]) = "/"

\* afi.getMetadataForSong(song.path) at the end of getMetadata
MetadataOfSong(d, dk, key) ==
  IF key \in DOMAIN d.songs /\ d.songs[key].path \in DOMAIN dk
  THEN getMetadataForSong(dk, d.songs[key].path) ELSE NoMd

\* getMetadata(fullPathOrKey) with a song key: a key text with '/' goes to
\* GetIndexForPath, and no location is the start of a text that begins with S
getMetadataOfKey(d, dk, key) ==
  LET afi == IF KeyIsPath(key) THEN 0 ELSE GetIndexForKey(d, key)
  IN IF afi = 0 THEN NoMd ELSE MetadataOfSong(d, dk, key)

\* getMetadata(fullPathOrKey) with a full path
getMetadataOfPath(d, dk, p) ==
  LET afi == GetIndexForPath(d, p)
  IN IF afi = 0 THEN NoMd ELSE MetadataOfSong(d, dk, makeSongKey(d, afi, p).key)

\* C40: for every song s of the database, getMetadata(s.key) and
\* getMetadata(s.path) return the same metadata, whatever characters the key
\* holds.
C40_KeyAndPathAgree ==
  \A key \in DOMAIN dbSongs :
    SameMd(getMetadataOfKey(D, disk, key), getMetadataOfPath(D, disk, dbSongs[key].path))

====
